---- MODULE Spec2Model ----
(***************************************************************************)
(* A model of the GitAnalyzer of src/git_analyzer.py: the merge-message   *)
(* heuristics, the branch graph builder, the merge history queries, the   *)
(* statistics tables and the life cycle of the temporary clone directory  *)
(* of a remote handle; of the MRDatabase of src/mr_database.py; of        *)
(* parse_repo_url of src/github_integration.py; and of the list of recent *)
(* repositories of src/app.py.                                             *)
(*                                                                         *)
(* A Python str is a sequence of one-character strings, so that the       *)
(* regular expressions and substring tests are computed character by      *)
(* character.                                                              *)
(***************************************************************************)
EXTENDS Integers, Sequences, FiniteSets, TLC

VARIABLES
    message,      \* SpecClassify: the raw commit message under analysis
    cpc,          \* SpecClassify: "input", "analyzed" or "classified"
    cout,         \* SpecClassify: what _analyze_merge_commit returned
    ctype,        \* SpecClassify: what _classify_merge_type returned
    repo,         \* SpecRepo: the repository the handle reads (commits, refs)
    query,        \* SpecRepo: the query that ran last, "none" before any
    faults,       \* SpecRepo: what failed under the query that ran last
    result,       \* SpecRepo: what the query that ran last returned
    hstate,       \* SpecHandle: per GitAnalyzer object, where its life stands
    remote,       \* SpecHandle: per object, self.is_remote
    temp_dir,     \* SpecHandle: per object, self.temp_dir
    owner,        \* SpecHandle: per object, whether its creator still refers to it
    fs,           \* SpecHandle: the directories that exist
    at,           \* SpecHandle: per thread, the object whose query it runs
    qpc,          \* SpecHandle: per thread, how far its query is
    saw_missing,  \* SpecHandle: the threads whose query found its clone gone
    repo_path,    \* SpecOpen: the text the user gave as repository
    upc,          \* SpecOpen: the call that ran last on that text
    analyzer,     \* SpecOpen: the attributes of the GitAnalyzer made from it
    uout,         \* SpecOpen: what the call that ran last returned
    db,           \* SpecDb: the rows of the three tables of the database file
    clock,        \* SpecDb: the second CURRENT_TIMESTAMP reads
    dbcall,       \* SpecDb: the MRDatabase method that ran last, its arguments
    dbout,        \* SpecDb: what that method returned
    recent_repos, \* SpecRecent: st.session_state.recent_repos
    rcall,        \* SpecRecent: the function that ran last, its argument
    rout          \* SpecRecent: what get_recent_repos returned last

classifyVars == <<message, cpc, cout, ctype>>
repoVars == <<repo, query, faults, result>>
handleVars == <<hstate, remote, temp_dir, owner, fs, at, qpc, saw_missing>>
openVars == <<repo_path, upc, analyzer, uout>>
dbVars == <<db, clock, dbcall, dbout>>
recentVars == <<recent_repos, rcall, rout>>
vars == <<message, cpc, cout, ctype, repo, query, faults, result,
          hstate, remote, temp_dir, owner, fs, at, qpc, saw_missing,
          repo_path, upc, analyzer, uout,
          db, clock, dbcall, dbout, recent_repos, rcall, rout>>

\* the value of a call that returned None, of an attribute set to None
None == [kind |-> "None"]

\* the parts of the state a specification does not use stay as they start
IdleClassify == message = <<>> /\ cpc = "idle" /\ cout = None /\ ctype = "none"
IdleRepo == repo = None /\ query = "none" /\ faults = None /\ result = None
IdleHandle ==
    /\ hstate = None /\ remote = None /\ temp_dir = None /\ owner = None
    /\ fs = {} /\ at = None /\ qpc = None /\ saw_missing = {}
IdleOpen == repo_path = <<>> /\ upc = "idle" /\ analyzer = None /\ uout = None
IdleDb == db = None /\ clock = 0 /\ dbcall = None /\ dbout = None
IdleRecent == recent_repos = None /\ rcall = None /\ rout = None

(***************************************************************************)
(* Characters and strings                                                  *)
(***************************************************************************)
NL == "\n"

UpperCase == <<"A", "B", "C", "D", "E", "F", "G", "H", "I", "J", "K", "L", "M",
               "N", "O", "P", "Q", "R", "S", "T", "U", "V", "W", "X", "Y", "Z">>
LowerCase == <<"a", "b", "c", "d", "e", "f", "g", "h", "i", "j", "k", "l", "m",
               "n", "o", "p", "q", "r", "s", "t", "u", "v", "w", "x", "y", "z">>
Digits == {"0", "1", "2", "3", "4", "5", "6", "7", "8", "9"}

\* str.lower() on one character
UpperToLower ==
    [c \in {UpperCase[i] : i \in 1..Len(UpperCase)} |->
        LowerCase[CHOOSE i \in 1..Len(UpperCase) : UpperCase[i] = c]]

LowerChar(c) == IF c \in DOMAIN UpperToLower THEN UpperToLower[c] ELSE c

\* str.lower()
lower(s) == [i \in 1..Len(s) |-> LowerChar(s[i])]

\* Python's whitespace test, on the characters the messages are made of
IsSpace(c) == c \in {" ", NL, "\t"}

WordChars ==
    {LowerCase[i] : i \in 1..Len(LowerCase)} \cup {UpperCase[i] : i \in 1..Len(UpperCase)}
    \cup Digits \cup {"_"}

IsWord(c) == c \in WordChars

\* str.strip(): whitespace removed at both ends
RECURSIVE lstrip(_)
lstrip(s) == IF s # <<>> /\ IsSpace(Head(s)) THEN lstrip(Tail(s)) ELSE s

RECURSIVE rstrip(_)
rstrip(s) ==
    IF s # <<>> /\ IsSpace(s[Len(s)]) THEN rstrip(SubSeq(s, 1, Len(s) - 1)) ELSE s

strip(s) == rstrip(lstrip(s))

\* the elements of a sequence
Range(seq) == {seq[i] : i \in 1..Len(seq)}

\* `sub in s`
Contains(sub, s) ==
    \E p \in 1..(Len(s) - Len(sub) + 1) :
        \A i \in 1..Len(sub) : s[p + i - 1] = sub[i]

(***************************************************************************)
(* Regular expressions: re.search(pattern, string, re.IGNORECASE)          *)
(* A pattern is a sequence of elements: a literal, a greedy one-or-more    *)
(* of a character class (capturing or not), a lazy zero-or-more.           *)
(***************************************************************************)
Lit(text) == [kind |-> "lit", text |-> text, cls |-> "none", cap |-> FALSE]
Group(cls) == [kind |-> "plus", text |-> <<>>, cls |-> cls, cap |-> TRUE]
Plus(cls) == [kind |-> "plus", text |-> <<>>, cls |-> cls, cap |-> FALSE]
Lazy(cls) == [kind |-> "lazy", text |-> <<>>, cls |-> cls, cap |-> FALSE]

InClass(cls, c) ==
    CASE cls = "notquote" -> c # "'"          \* [^']
      [] cls = "notspace" -> ~IsSpace(c)      \* [^\s]
      [] cls = "digit" -> c \in Digits        \* \d
      [] cls = "word" -> IsWord(c)            \* \w
      [] cls = "dot" -> c # NL                \* .
      [] OTHER -> FALSE

\* the literal matches at pos, letters compared without case (re.IGNORECASE)
LitAt(text, s, pos) ==
    /\ pos + Len(text) - 1 <= Len(s)
    /\ \A i \in 1..Len(text) : LowerChar(s[pos + i - 1]) = LowerChar(text[i])

\* length of the longest run of characters of the class starting at pos
RECURSIVE Run(_, _, _)
Run(cls, s, pos) ==
    IF pos <= Len(s) /\ InClass(cls, s[pos]) THEN 1 + Run(cls, s, pos + 1) ELSE 0

NoMatch == [ok |-> FALSE, groups |-> <<>>]

\* the backtracking matcher: element k of pat at position pos
RECURSIVE MatchFrom(_, _, _, _, _)
RECURSIVE TryGreedy(_, _, _, _, _, _)
RECURSIVE TryLazy(_, _, _, _, _, _, _)

MatchFrom(pat, k, s, pos, caps) ==
    IF k > Len(pat) THEN [ok |-> TRUE, groups |-> caps]
    ELSE CASE pat[k].kind = "lit" ->
                IF LitAt(pat[k].text, s, pos)
                THEN MatchFrom(pat, k + 1, s, pos + Len(pat[k].text), caps)
                ELSE NoMatch
           [] pat[k].kind = "plus" ->
                TryGreedy(pat, k, s, pos, caps, Run(pat[k].cls, s, pos))
           [] OTHER ->
                TryLazy(pat, k, s, pos, caps, 0, Run(pat[k].cls, s, pos))

\* X+ : the longest run first, then shorter ones, never fewer than one
TryGreedy(pat, k, s, pos, caps, n) ==
    IF n < 1 THEN NoMatch
    ELSE LET caps2 == IF pat[k].cap
                      THEN Append(caps, SubSeq(s, pos, pos + n - 1))
                      ELSE caps
             r == MatchFrom(pat, k + 1, s, pos + n, caps2)
         IN  IF r.ok THEN r ELSE TryGreedy(pat, k, s, pos, caps, n - 1)

\* X*? : the shortest run first, then longer ones, up to the longest run
TryLazy(pat, k, s, pos, caps, n, longest) ==
    IF n > longest THEN NoMatch
    ELSE LET r == MatchFrom(pat, k + 1, s, pos + n, caps)
         IN  IF r.ok THEN r ELSE TryLazy(pat, k, s, pos, caps, n + 1, longest)

\* re.search: the match at the leftmost position that has one
RECURSIVE SearchFrom(_, _, _)
SearchFrom(pat, s, pos) ==
    IF pos > Len(s) + 1 THEN NoMatch
    ELSE LET r == MatchFrom(pat, 1, s, pos, <<>>)
         IN  IF r.ok THEN r ELSE SearchFrom(pat, s, pos + 1)

re_search(pat, s) == SearchFrom(pat, s, 1)

\* len(match.groups()): the number of capturing groups of the pattern
RECURSIVE NumGroups(_)
NumGroups(pat) ==
    IF pat = <<>> THEN 0
    ELSE (IF Head(pat).cap THEN 1 ELSE 0) + NumGroups(Tail(pat))

(***************************************************************************)
(* Commits.  A hexsha is <<its first 8 characters, the other 32>>, so that *)
(* hexsha[:8] is a projection that two different commits can share.        *)
(***************************************************************************)
Short(hexsha) == hexsha[1]

\* s[:n] + '...' if len(s) > n else s
Truncate(s, n) == IF Len(s) > n THEN SubSeq(s, 1, n) \o <<".", ".", ".">> ELSE s

MessageLimit == 100

(***************************************************************************)
(* MergeClassifier                                                         *)
(***************************************************************************)
s_unknown == <<"u", "n", "k", "n", "o", "w", "n">>
s_main == <<"m", "a", "i", "n">>
s_MergeBranchQ == <<"M", "e", "r", "g", "e", " ", "b", "r", "a", "n", "c", "h", " ", "'">>
s_QInto == <<"'", " ", "i", "n", "t", "o", " ">>
s_Q == <<"'">>
s_Merge == <<"M", "e", "r", "g", "e", " ">>
s_Into == <<" ", "i", "n", "t", "o", " ">>
s_MergePR == <<"M", "e", "r", "g", "e", " ", "p", "u", "l", "l", " ", "r", "e", "q", "u", "e", "s", "t", " ", "#">>
s_From == <<" ", "f", "r", "o", "m", " ">>

merge_patterns == <<
    \* r"Merge branch '([^']+)' into ([^\s]+)"
    << Lit(s_MergeBranchQ), Group("notquote"), Lit(s_QInto), Group("notspace") >>,
    \* r"Merge branch '([^']+)'"
    << Lit(s_MergeBranchQ), Group("notquote"), Lit(s_Q) >>,
    \* r"Merge pull request #\d+ from ([^\s]+)"
    << Lit(s_MergePR), Plus("digit"), Lit(s_From), Group("notspace") >>,
    \* r"Merge ([^\s]+) into ([^\s]+)"
    << Lit(s_Merge), Group("notspace"), Lit(s_Into), Group("notspace") >> >>

\* the loop over merge_patterns, which stops at the first pattern that matches;
\* and every pattern tried in turn, a later match overwriting an earlier one
RECURSIVE ExtractBranchesNoBreak(_, _, _)
ExtractBranchesNoBreak(patterns, i, msg) ==
    IF i > Len(patterns) THEN [source |-> s_unknown, target |-> s_unknown]
    ELSE LET match == re_search(patterns[i], msg)
             later == ExtractBranchesNoBreak(patterns, i + 1, msg)
         IN  IF later.source # s_unknown \/ ~match.ok THEN later
             ELSE IF NumGroups(patterns[i]) >= 2
                  THEN [source |-> match.groups[1], target |-> match.groups[2]]
                  ELSE [source |-> match.groups[1], target |-> s_main]

RECURSIVE ExtractBranches(_, _, _)
ExtractBranches(patterns, i, msg) ==
    IF i > Len(patterns) THEN [source |-> s_unknown, target |-> s_unknown]
    ELSE LET match == re_search(patterns[i], msg)
         IN  IF match.ok
             THEN IF NumGroups(patterns[i]) >= 2
                  THEN [source |-> match.groups[1], target |-> match.groups[2]]
                  ELSE [source |-> match.groups[1], target |-> s_main]
             ELSE ExtractBranches(patterns, i + 1, msg)

s_pullrequest == <<"p", "u", "l", "l", " ", "r", "e", "q", "u", "e", "s", "t">>
s_pr == <<"p", "r">>
s_feature == <<"f", "e", "a", "t", "u", "r", "e">>
s_hotfix == <<"h", "o", "t", "f", "i", "x">>
s_fix == <<"f", "i", "x">>
s_release == <<"r", "e", "l", "e", "a", "s", "e">>
s_develop == <<"d", "e", "v", "e", "l", "o", "p">>

\* the chain with the Hotfix test ahead of the Pull Request test
classify_merge_type_fix_first(msg) ==
    LET message_lower == lower(msg)
    IN  IF Contains(s_hotfix, message_lower) \/ Contains(s_fix, message_lower)
        THEN "Hotfix"
        ELSE IF Contains(s_pullrequest, message_lower) \/ Contains(s_pr, message_lower)
        THEN "Pull Request"
        ELSE IF Contains(s_feature, message_lower) THEN "Feature Branch"
        ELSE IF Contains(s_release, message_lower) THEN "Release Branch"
        ELSE IF Contains(s_develop, message_lower) THEN "Development Branch"
        ELSE "Regular Merge"

classify_merge_type(msg) ==
    LET message_lower == lower(msg)
    IN  IF Contains(s_pullrequest, message_lower) \/ Contains(s_pr, message_lower)
        THEN "Pull Request"
        ELSE IF Contains(s_feature, message_lower) THEN "Feature Branch"
        ELSE IF Contains(s_hotfix, message_lower) \/ Contains(s_fix, message_lower)
        THEN "Hotfix"
        ELSE IF Contains(s_release, message_lower) THEN "Release Branch"
        ELSE IF Contains(s_develop, message_lower) THEN "Development Branch"
        ELSE "Regular Merge"

\* _analyze_merge_commit: any exception raised in its body (here: the diff
\* statistics of the commit cannot be read) makes it return None
analyze_merge_commit(commit) ==
    IF ~commit.stats_ok THEN None
    ELSE LET msg == strip(commit.message)
             b == ExtractBranches(merge_patterns, 1, msg)
         IN  [kind |-> "merge",
              hash |-> Short(commit.hexsha),
              full_hash |-> commit.hexsha,
              message |-> Truncate(msg, MessageLimit),
              source_branch |-> b.source,
              target_branch |-> b.target,
              parents_count |-> Len(commit.parents),
              parents_info |-> [i \in 1..Len(commit.parents) |->
                                   Short(commit.parents[i])],
              merge_type |-> classify_merge_type(msg)]

(***************************************************************************)
(* SpecClassify: the two functions applied to one commit message           *)
(***************************************************************************)
h_MergeBranch == <<"M", "e", "r", "g", "e", " ", "b", "r", "a", "n", "c", "h", " ">>
h_mergeBRANCH == <<"m", "e", "r", "g", "e", " ", "B", "R", "A", "N", "C", "H", " ">>
h_Merge == <<"M", "e", "r", "g", "e", " ">>
h_MergePR12 == <<"M", "e", "r", "g", "e", " ", "p", "u", "l", "l", " ", "r", "e", "q", "u", "e", "s", "t", " ", "#", "1", "2", " ", "f", "r", "o", "m", " ">>
h_MergePRno == <<"M", "e", "r", "g", "e", " ", "p", "u", "l", "l", " ", "r", "e", "q", "u", "e", "s", "t", " ", "#", " ", "f", "r", "o", "m", " ">>
h_Update == <<"U", "p", "d", "a", "t", "e", " ">>
r_featurex == <<"'", "f", "e", "a", "t", "u", "r", "e", "-", "x", "'">>
r_ab == <<"'", "a", " ", "b", "'">>
r_fixlogin == <<"f", "i", "x", "/", "l", "o", "g", "i", "n">>
r_release == <<"R", "e", "l", "e", "a", "s", "e">>
r_foo == <<"f", "o", "o">>
r_empty == <<"'", "'">>
r_hotfixpr == <<"h", "o", "t", "f", "i", "x", "-", "p", "r">>
m_into == <<" ", "i", "n", "t", "o", " ">>
m_sp == <<" ">>
m_nlinto == <<NL, "i", "n", "t", "o", " ">>
t_develop == <<"d", "e", "v", "e", "l", "o", "p">>
t_main == <<"m", "a", "i", "n">>
t_barbaz == <<"b", "a", "r", " ", "b", "a", "z">>
t_again == <<"x", " ", "m", "e", "r", "g", "e", " ", "y", " ", "i", "n", "t", "o", " ", "z">>

Heads == {h_MergeBranch, h_mergeBRANCH, h_Merge, h_MergePR12, h_MergePRno, h_Update, <<>>}
Sources == {r_featurex, r_ab, r_fixlogin, r_release, r_foo, r_empty, r_hotfixpr}
Middles == {m_into, m_sp, m_nlinto, <<>>}
Targets == {t_develop, t_main, t_barbaz, t_again, <<>>}

\* the commit messages: a head, a source, a joint and a target
Messages == {h \o r \o m \o t : h \in Heads, r \in Sources, m \in Middles, t \in Targets}

\* the messages section 8 of the specification names, and two more
ex_into_develop == h_MergeBranch \o r_featurex \o m_into \o t_develop
ex_branch_only == h_MergeBranch \o r_featurex
ex_pull_request == h_MergePR12 \o r_fixlogin
ex_no_pattern == h_Merge \o r_foo \o m_sp \o t_barbaz
ex_release == h_Merge \o r_release \o m_into \o t_main \o <<NL>>

\* a merge commit carrying the message
MergeCommitOf(msg, ok) ==
    [hexsha |-> <<"c0ffee00", "m">>,
     parents |-> << <<"aaaaaaaa", "1">>, <<"bbbbbbbb", "2">> >>,
     message |-> msg,
     stats_ok |-> ok]

InitClassify ==
    /\ message \in Messages
    /\ cpc = "input"
    /\ cout = None
    /\ ctype = "none"
    /\ IdleRepo /\ IdleHandle /\ IdleOpen /\ IdleDb /\ IdleRecent

AnalyzeMergeCommit ==
    /\ cpc = "input"
    /\ \E ok \in BOOLEAN : cout' = analyze_merge_commit(MergeCommitOf(message, ok))
    /\ cpc' = "analyzed"
    /\ UNCHANGED <<message, ctype>>
    /\ UNCHANGED <<repoVars, handleVars, openVars, dbVars, recentVars>>

ClassifyMergeType ==
    /\ cpc = "input"
    /\ ctype' = classify_merge_type(message)
    /\ cpc' = "classified"
    /\ UNCHANGED <<message, cout>>
    /\ UNCHANGED <<repoVars, handleVars, openVars, dbVars, recentVars>>

NextClassify == AnalyzeMergeCommit \/ ClassifyMergeType

SpecClassify == InitClassify /\ [][NextClassify]_vars

(***************************************************************************)
(* The repository: commits with their parents, dates and messages, the     *)
(* local branches and HEAD.  None of the queries writes to it.             *)
(***************************************************************************)
H1 == <<"1111aaaa", "a">>
H2 == <<"2222bbbb", "b">>
H3 == <<"3333cccc", "c">>
H4 == <<"3333cccc", "d">>      \* same first 8 characters as H3

Hashes == {H1, H2, H3, H4}
OrderedHashes == <<H1, H2, H3, H4>>
IndexOf(h) == CHOOSE i \in 1..Len(OrderedHashes) : OrderedHashes[i] = h

Branches == <<"dev", "main">>       \* repo.branches, in the order git lists them
BranchNames == {Branches[i] : i \in 1..Len(Branches)}
DETACHED == "HEAD (detached)"

\* commit.parents of the i-th commit: none for the first commit, else one or
\* two earlier commits
ParentChoices(i) ==
    IF i = 1 THEN {<<>>}
    ELSE {<<OrderedHashes[a]>> : a \in 1..(i - 1)}
         \cup {<<OrderedHashes[ab[2]], OrderedHashes[ab[1]]>> :
                   ab \in {x \in (1..(i - 1)) \X (1..(i - 1)) : x[1] < x[2]}}

ParentMaps ==
    {p \in [Hashes -> UNION {ParentChoices(i) : i \in 1..Len(OrderedHashes)}] :
        \A h \in Hashes : p[h] \in ParentChoices(IndexOf(h))}

\* committed dates: no two commits share one; in the second map a parent
\* (H2) carries a later date than its child (H3)
DateMaps == {[h \in Hashes |-> IndexOf(h)],
             (H1 :> 1) @@ (H2 :> 3) @@ (H3 :> 2) @@ (H4 :> 4)}

MessageMaps == {(H1 :> h_Update \o r_foo) @@ (H2 :> ex_no_pattern)
                    @@ (H3 :> ex_into_develop) @@ (H4 :> ex_no_pattern),
                (H1 :> h_Update \o r_foo) @@ (H2 :> ex_release)
                    @@ (H3 :> ex_no_pattern) @@ (H4 :> ex_pull_request)}

Repos ==
    {[parents |-> p, date |-> d, message |-> m, tips |-> t, active |-> a] :
        p \in ParentMaps, d \in DateMaps, m \in MessageMaps,
        t \in [BranchNames -> Hashes], a \in {"main", DETACHED}}

\* the commit object of a hash; stats_ok tells whether commit.stats can be read
Commit(r, h, stats_ok) ==
    [hexsha |-> h, parents |-> r.parents[h], message |-> r.message[h],
     date |-> r.date[h], stats_ok |-> stats_ok]

\* the commit HEAD points at
HeadCommit(r) == r.tips["main"]

\* repo.branches: the local branches the repository has, in the order git
\* lists them; a repository without a commit has none
RepoBranches(r) == SelectSeq(Branches, LAMBDA b : b \in DOMAIN r.tips)

\* whether git can resolve the revision: HEAD, or the name of a local branch
Resolves(r, rev) ==
    IF rev = "HEAD" THEN "main" \in DOMAIN r.tips ELSE rev \in DOMAIN r.tips

\* the commit the revision resolves to
rev_parse(r, rev) == IF rev = "HEAD" THEN HeadCommit(r) ELSE r.tips[rev]

NoLimit == -1      \* max_count not given
NoDate == -1       \* since / until not given (None)

\* git rev-list from a set of pending commits: the pending commit with the
\* latest date comes next and its parents become pending, until max_count
\* commits are out.  A commit older than `since` is left out and its parents
\* are not walked; a commit later than `until` is left out and its parents
\* are walked.
RECURSIVE RevList(_, _, _, _, _, _, _)
RevList(r, pending, seen, out, max_count, since, until) ==
    IF pending = {} \/ (max_count # NoLimit /\ Len(out) >= max_count) THEN out
    ELSE LET c == CHOOSE x \in pending : \A y \in pending : r.date[y] <= r.date[x]
             ps == {r.parents[c][i] : i \in 1..Len(r.parents[c])} \ seen
         IN  IF since # NoDate /\ r.date[c] < since
             THEN RevList(r, pending \ {c}, seen, out, max_count, since, until)
             ELSE RevList(r, (pending \ {c}) \cup ps, seen \cup ps,
                          IF until # NoDate /\ r.date[c] > until
                          THEN out ELSE Append(out, c),
                          max_count, since, until)

\* repo.iter_commits(rev, max_count=...)
iter_commits(r, tip, max_count) ==
    RevList(r, {tip}, {tip}, <<>>, max_count, NoDate, NoDate)

\* repo.iter_commits(rev, since=..., until=...)
iter_commits_dated(r, tip, since, until) ==
    RevList(r, {tip}, {tip}, <<>>, NoLimit, since, until)

(***************************************************************************)
(* GraphBuilder: get_branch_graph_data                                     *)
(***************************************************************************)
GraphCap == 2                \* max_count=50 of the per-branch traversal, scaled
BranchCountCap == 100        \* max_count=100 of the per-branch commit count
GraphMessageLimit == 50

\* what can fail under a query: the enumeration of the refs (branches, HEAD),
\* the traversal of single branches, the reading of single commits
Faults ==
    {[enum |-> FALSE, branches |-> bs, commits |-> cs] :
        bs \in SUBSET BranchNames, cs \in {{}} \cup {{h} : h \in Hashes}}
    \cup {[enum |-> TRUE, branches |-> {}, commits |-> {}]}

\* commit_branch_map, a dict in insertion order: a sequence of entries.
\* AddBranchNoLookup appends an entry without the `not in` test.
AddBranchNoLookup(map, h, name) == Append(map, [hexsha |-> h, branches |-> <<name>>])

AddBranch(map, h, name) ==
    IF \E i \in 1..Len(map) : map[i].hexsha = h
    THEN [i \in 1..Len(map) |->
             IF map[i].hexsha = h
             THEN [map[i] EXCEPT !.branches = Append(@, name)]
             ELSE map[i]]
    ELSE Append(map, [hexsha |-> h, branches |-> <<name>>])

RECURSIVE AddCommits(_, _, _)
AddCommits(map, commits, name) ==
    IF commits = <<>> THEN map
    ELSE AddCommits(AddBranch(map, Head(commits), name), Tail(commits), name)

\* the loop over the branches; a branch whose traversal raises is skipped.
\* MapBranchesAbort leaves the loop at the first branch that raises.
RECURSIVE MapBranchesAbort(_, _, _, _)
MapBranchesAbort(r, f, i, map) ==
    LET branches == RepoBranches(r)
    IN  IF i > Len(branches) \/ branches[i] \in f.branches THEN map
        ELSE MapBranchesAbort(r, f, i + 1,
                 AddCommits(map, iter_commits(r, r.tips[branches[i]], GraphCap), branches[i]))

RECURSIVE MapBranches(_, _, _, _)
MapBranches(r, f, i, map) ==
    LET branches == RepoBranches(r)
    IN  IF i > Len(branches) THEN map
        ELSE IF branches[i] \in f.branches THEN MapBranches(r, f, i + 1, map)
        ELSE MapBranches(r, f, i + 1,
                 AddCommits(map, iter_commits(r, r.tips[branches[i]], GraphCap), branches[i]))

\* one entry of graph_data['commits']; GraphNodeAnyParent marks every commit
\* that has a parent as a merge
GraphNodeAnyParent(r, entry) ==
    [hash |-> Short(entry.hexsha),
     full_hash |-> entry.hexsha,
     date |-> r.date[entry.hexsha],
     message |-> Truncate(strip(r.message[entry.hexsha]), GraphMessageLimit),
     branches |-> entry.branches,
     parents |-> r.parents[entry.hexsha],
     is_merge |-> Len(r.parents[entry.hexsha]) > 0]

GraphNode(r, entry) ==
    [hash |-> Short(entry.hexsha),
     full_hash |-> entry.hexsha,
     date |-> r.date[entry.hexsha],
     message |-> Truncate(strip(r.message[entry.hexsha]), GraphMessageLimit),
     branches |-> entry.branches,
     parents |-> r.parents[entry.hexsha],
     is_merge |-> Len(r.parents[entry.hexsha]) > 1]

\* the loop over commit_branch_map; a commit that cannot be read is skipped
RECURSIVE BuildNodes(_, _, _)
BuildNodes(r, f, map) ==
    IF map = <<>> THEN <<>>
    ELSE IF Head(map).hexsha \in f.commits THEN BuildNodes(r, f, Tail(map))
    ELSE <<GraphNode(r, Head(map))>> \o BuildNodes(r, f, Tail(map))

\* list.sort(key=date, reverse=True): stable, latest first
RECURSIVE InsertByDate(_, _)
InsertByDate(sorted, n) ==
    IF sorted = <<>> THEN <<n>>
    ELSE IF Head(sorted).date >= n.date
         THEN <<Head(sorted)>> \o InsertByDate(Tail(sorted), n)
         ELSE <<n>> \o sorted

RECURSIVE SortByDateDesc(_, _)
SortByDateDesc(sorted, rest) ==
    IF rest = <<>> THEN sorted
    ELSE SortByDateDesc(InsertByDate(sorted, Head(rest)), Tail(rest))

\* the edges of one commit: one per parent
EdgesOf(commit) ==
    [i \in 1..Len(commit.parents) |->
        [source |-> Short(commit.parents[i]), target |-> commit.hash,
         type |-> "parent_child"]]

\* the edges of all the commits; BuildEdgesPruned keeps an edge only when its
\* parent is a commit of the list
RECURSIVE BuildEdgesPruned(_, _)
BuildEdgesPruned(commits, all) ==
    IF commits = <<>> THEN <<>>
    ELSE SelectSeq(EdgesOf(Head(commits)),
                   LAMBDA e : \E i \in 1..Len(all) : all[i].hash = e.source)
         \o BuildEdgesPruned(Tail(commits), all)

RECURSIVE BuildEdges(_, _)
BuildEdges(commits, all) ==
    IF commits = <<>> THEN <<>>
    ELSE EdgesOf(Head(commits)) \o BuildEdges(Tail(commits), all)

\* repo.active_branch raises when HEAD is detached
ActiveBranchRaises(r) == r.active = DETACHED

\* the loop that fills graph_data['branches']; a branch is skipped when
\* anything raises for it
RECURSIVE BranchInfos(_, _, _)
BranchInfos(r, f, i) ==
    LET branches == RepoBranches(r)
    IN  IF i > Len(branches) THEN <<>>
        ELSE IF branches[i] \in f.branches \/ ActiveBranchRaises(r)
        THEN BranchInfos(r, f, i + 1)
        ELSE <<[name |-> branches[i],
                last_commit |-> Short(r.tips[branches[i]]),
                commits_count |-> Len(iter_commits(r, r.tips[branches[i]], BranchCountCap)),
                is_active |-> branches[i] = r.active]>>
             \o BranchInfos(r, f, i + 1)

EmptyGraph == [nodes |-> <<>>, edges |-> <<>>, commits |-> <<>>, branches |-> <<>>]

get_branch_graph_data(r, f) ==
    IF f.enum THEN EmptyGraph
    ELSE LET commit_branch_map == MapBranches(r, f, 1, <<>>)
             commits == SortByDateDesc(<<>>, BuildNodes(r, f, commit_branch_map))
         IN  [nodes |-> <<>>,
              edges |-> BuildEdges(commits, commits),
              commits |-> commits,
              branches |-> BranchInfos(r, f, 1)]

(***************************************************************************)
(* The merge queries                                                       *)
(***************************************************************************)
HistoryCap == 200

\* the loop of get_merge_direction_history over the commits of HEAD;
\* DirectionRecordsKnownOnly keeps a record only when a pattern gave a source
RECURSIVE DirectionRecordsKnownOnly(_, _, _)
DirectionRecordsKnownOnly(r, f, commits) ==
    IF commits = <<>> THEN <<>>
    ELSE LET h == Head(commits)
             rest == DirectionRecordsKnownOnly(r, f, Tail(commits))
         IN  IF Len(r.parents[h]) > 1
             THEN LET merge_info == analyze_merge_commit(Commit(r, h, h \notin f.commits))
                  IN  IF merge_info # None /\ merge_info.source_branch # s_unknown
                      THEN <<merge_info>> \o rest ELSE rest
             ELSE rest

RECURSIVE DirectionRecords(_, _, _)
DirectionRecords(r, f, commits) ==
    IF commits = <<>> THEN <<>>
    ELSE LET h == Head(commits)
             rest == DirectionRecords(r, f, Tail(commits))
         IN  IF Len(r.parents[h]) > 1
             THEN LET merge_info == analyze_merge_commit(Commit(r, h, h \notin f.commits))
                  IN  IF merge_info # None THEN <<merge_info>> \o rest ELSE rest
             ELSE rest

\* get_merge_direction_history: whatever raises outside the per-commit try
\* ends the loop with what was collected, here nothing
get_merge_direction_history(r, f) ==
    IF f.enum \/ ~Resolves(r, "HEAD") THEN <<>>
    ELSE DirectionRecords(r, f, iter_commits(r, HeadCommit(r), HistoryCap))

s_Merge5 == <<"M", "e", "r", "g", "e">>
s_into4 == <<"i", "n", "t", "o">>

\* r"Merge.*?(\w+).*?into.*?(\w+)"
merge_pattern ==
    << Lit(s_Merge5), Lazy("dot"), Group("word"), Lazy("dot"), Lit(s_into4),
       Lazy("dot"), Group("word") >>

\* one row of get_merge_stats
MergeStatsRecord(r, h) ==
    LET match == re_search(merge_pattern, r.message[h])
    IN  [hash |-> Short(h),
         full_hash |-> h,
         date |-> r.date[h],
         message |-> strip(r.message[h]),
         source_branch |-> IF match.ok THEN match.groups[1] ELSE s_unknown,
         target_branch |-> IF match.ok THEN match.groups[2] ELSE s_unknown,
         parents_count |-> Len(r.parents[h])]

RECURSIVE MergeStatsRecords(_, _)
MergeStatsRecords(r, commits) ==
    IF commits = <<>> THEN <<>>
    ELSE IF Len(r.parents[Head(commits)]) > 1
         THEN <<MergeStatsRecord(r, Head(commits))>> \o MergeStatsRecords(r, Tail(commits))
         ELSE MergeStatsRecords(r, Tail(commits))

\* get_merge_stats: a GitCommandError of the traversal gives no commits
get_merge_stats(r, f, since_date, until_date) ==
    IF f.enum \/ ~Resolves(r, "HEAD") THEN <<>>
    ELSE MergeStatsRecords(r, iter_commits_dated(r, HeadCommit(r), since_date, until_date))

(***************************************************************************)
(* SpecRepo: the queries of a handle on one repository                     *)
(***************************************************************************)
NoFaults == [enum |-> FALSE, branches |-> {}, commits |-> {}]

InitRepo ==
    /\ repo \in Repos
    /\ query = "none"
    /\ faults = NoFaults
    /\ result = None
    /\ IdleClassify /\ IdleHandle /\ IdleOpen /\ IdleDb /\ IdleRecent

\* a query is a blocking call: the next one starts when the caller has taken
\* the result of the last
GetBranchGraphData ==
    /\ query = "none"
    /\ \E f \in Faults :
          /\ faults' = f
          /\ result' = get_branch_graph_data(repo, f)
    /\ query' = "graph"
    /\ UNCHANGED repo
    /\ UNCHANGED <<classifyVars, handleVars, openVars, dbVars, recentVars>>

GetMergeDirectionHistory ==
    /\ query = "none"
    /\ \E f \in {x \in Faults : x.branches = {}} :
          /\ faults' = f
          /\ result' = get_merge_direction_history(repo, f)
    /\ query' = "merge_direction"
    /\ UNCHANGED repo
    /\ UNCHANGED <<classifyVars, handleVars, openVars, dbVars, recentVars>>

SinceDates == {NoDate, 2}
UntilDates == {NoDate, 3}

GetMergeStats ==
    /\ query = "none"
    /\ \E f \in {x \in Faults : x.branches = {} /\ x.commits = {}},
          since_date \in SinceDates, until_date \in UntilDates :
          /\ faults' = f
          /\ result' = get_merge_stats(repo, f, since_date, until_date)
    /\ query' = "merge_stats"
    /\ UNCHANGED repo
    /\ UNCHANGED <<classifyVars, handleVars, openVars, dbVars, recentVars>>

\* the caller drops the result it was given
Discard ==
    /\ query # "none"
    /\ query' = "none"
    /\ faults' = NoFaults
    /\ result' = None
    /\ UNCHANGED repo
    /\ UNCHANGED <<classifyVars, handleVars, openVars, dbVars, recentVars>>

NextRepo ==
    \/ GetBranchGraphData
    \/ GetMergeDirectionHistory
    \/ GetMergeStats
    \/ Discard

SpecRepo == InitRepo /\ [][NextRepo]_vars

(***************************************************************************)
(* Aggregator: get_commit_stats and the tables computed from it            *)
(* A point in time is a number of hours since 2024-01-01 00:00, a Monday;  *)
(* a table (DataFrame) is the sequence of its rows.                        *)
(***************************************************************************)
DayLen == 24
TS(day, hour) == day * DayLen + hour

\* the exception a call lets through to its caller
Raised(exc) == [kind |-> "raised", exc |-> exc]
IsRaised(v) == v.kind = "raised"

\* the DataFrame a call returns
Table(rows) == [kind |-> "table", rows |-> rows]

\* commit.stats.total, from the per-file statistics of the commit
RECURSIVE SumField(_, _)
SumField(rows, k) == IF rows = <<>> THEN 0 ELSE Head(rows)[k] + SumField(Tail(rows), k)

StatsTotal(r, h) ==
    [files |-> Len(r.files[h]),
     insertions |-> SumField(r.files[h], "insertions"),
     deletions |-> SumField(r.files[h], "deletions")]

\* one row of get_commit_stats
CommitRow(r, h) ==
    LET stats == StatsTotal(r, h)
    IN  [hash |-> Short(h),
         full_hash |-> h,
         author |-> r.author[h],
         author_email |-> r.email[h],
         date |-> r.date[h],
         message |-> strip(r.message[h]),
         files_changed |-> stats.files,
         insertions |-> stats.insertions,
         deletions |-> stats.deletions,
         lines_changed |-> stats.insertions + stats.deletions]

\* the commits the traversal gives; a GitCommandError (the revision does not
\* resolve, git fails) is caught and gives none
CommitsOrNone(r, f, rev, since_date, until_date) ==
    IF f.enum \/ ~Resolves(r, rev) THEN <<>>
    ELSE iter_commits_dated(r, rev_parse(r, rev), since_date, until_date)

\* get_commit_stats; commit.stats is read outside any try.
\* get_commit_stats_no_catch lets the GitCommandError of the traversal through.
get_commit_stats_no_catch(r, f, since_date, until_date, branch) ==
    IF f.enum \/ ~Resolves(r, branch) THEN Raised("GitCommandError")
    ELSE LET commits == iter_commits_dated(r, rev_parse(r, branch), since_date, until_date)
         IN  IF \E i \in 1..Len(commits) : commits[i] \in f.commits
             THEN Raised("Exception")
             ELSE Table([i \in 1..Len(commits) |-> CommitRow(r, commits[i])])

get_commit_stats(r, f, since_date, until_date, branch) ==
    LET commits == CommitsOrNone(r, f, branch, since_date, until_date)
    IN  IF \E i \in 1..Len(commits) : commits[i] \in f.commits
        THEN Raised("Exception")
        ELSE Table([i \in 1..Len(commits) |-> CommitRow(r, commits[i])])

\* the author names, in the order of Python's string comparison
Authors == <<"Alice", "alice", "bob">>

RECURSIVE MinDate(_)
MinDate(rows) ==
    IF Len(rows) = 1 THEN rows[1].date
    ELSE LET m == MinDate(Tail(rows))
         IN  IF rows[1].date < m THEN rows[1].date ELSE m

RECURSIVE MaxDate(_)
MaxDate(rows) ==
    IF Len(rows) = 1 THEN rows[1].date
    ELSE LET m == MaxDate(Tail(rows))
         IN  IF rows[1].date > m THEN rows[1].date ELSE m

\* (a / b).round(2), in hundredths: the nearest hundredth, a tie to the even one
Round2(a, b) ==
    LET q == (a * 100) \div b
        rem == (a * 100) % b
    IN  IF 2 * rem > b \/ (2 * rem = b /\ q % 2 = 1) THEN q + 1 ELSE q

\* the key groupby('author') groups the rows by: the name as it is;
\* and the name without case
AuthorKeyFolded(name) == IF name = "Alice" THEN "alice" ELSE name

AuthorKey(name) == name

\* one row of get_author_stats: the aggregates of the rows of one author
AuthorRow(name, rows) ==
    LET first_commit == MinDate(rows)
        last_commit == MaxDate(rows)
        lines == SumField(rows, "lines_changed")
    IN  [author |-> name,
         commits_count |-> Len(rows),
         total_files_changed |-> SumField(rows, "files_changed"),
         total_insertions |-> SumField(rows, "insertions"),
         total_deletions |-> SumField(rows, "deletions"),
         total_lines_changed |-> lines,
         first_commit |-> first_commit,
         last_commit |-> last_commit,
         active_days |-> ((last_commit - first_commit) \div DayLen) + 1,
         avg_lines_per_commit |-> Round2(lines, Len(rows))]

\* groupby('author').agg(...): one row per key that occurs, the keys sorted
GroupByAuthor(commits_df) ==
    LET keys == SelectSeq(Authors,
                    LAMBDA a : \E i \in 1..Len(commits_df) :
                                   AuthorKey(commits_df[i].author) = a)
    IN  [k \in 1..Len(keys) |->
            AuthorRow(keys[k],
                SelectSeq(commits_df, LAMBDA row : AuthorKey(row.author) = keys[k]))]

\* get_author_stats; get_author_stats_no_empty_test groups the table without
\* the test for an empty one, and a table without rows has no column 'author'
get_author_stats_no_empty_test(r, f, since_date, until_date) ==
    LET commits_df == get_commit_stats(r, f, since_date, until_date, "HEAD")
    IN  IF IsRaised(commits_df) THEN commits_df
        ELSE IF commits_df.rows = <<>> THEN Raised("KeyError")
        ELSE Table(GroupByAuthor(commits_df.rows))

get_author_stats(r, f, since_date, until_date) ==
    LET commits_df == get_commit_stats(r, f, since_date, until_date, "HEAD")
    IN  IF IsRaised(commits_df) THEN commits_df
        ELSE IF commits_df.rows = <<>> THEN Table(<<>>)
        ELSE Table(GroupByAuthor(commits_df.rows))

\* the first days of the months of 2024, counted from 2024-01-01
MonthStarts == <<0, 31, 60, 91, 121, 152>>
MonthOf(day) == Cardinality({m \in 1..Len(MonthStarts) : MonthStarts[m] <= day})

Periods == {"D", "W", "M"}

\* resample(period): the bucket of a point in time.  'D': its day; 'W': its
\* week, which ends on Sunday; 'M': its month.
BucketOf(period, ts) ==
    LET day == ts \div DayLen
    IN  CASE period = "D" -> day
          [] period = "W" -> day \div 7
          [] OTHER -> MonthOf(day)

\* the label of a bucket: the day, the Sunday, the last day of the month
BucketLabel(period, b) ==
    CASE period = "D" -> TS(b, 0)
      [] period = "W" -> TS(7 * b + 6, 0)
      [] OTHER -> TS(MonthStarts[b + 1] - 1, 0)

\* one row of get_time_series_stats
BucketRow(period, b, rows) ==
    [date |-> BucketLabel(period, b),
     commits |-> Len(rows),
     files_changed |-> SumField(rows, "files_changed"),
     insertions |-> SumField(rows, "insertions"),
     deletions |-> SumField(rows, "deletions"),
     lines_changed |-> SumField(rows, "lines_changed"),
     unique_authors |-> Cardinality({rows[i].author : i \in 1..Len(rows)})]

\* resample(period).agg(...): a row for every bucket from that of the
\* earliest to that of the latest row; BucketRowsNonEmpty has a row only for
\* a bucket that holds a commit
BucketRowsNonEmpty(period, commits_df) ==
    LET first == BucketOf(period, MinDate(commits_df))
        last == BucketOf(period, MaxDate(commits_df))
        In(b) == SelectSeq(commits_df, LAMBDA row : BucketOf(period, row.date) = b)
        all == [k \in 1..(last - first + 1) |-> BucketRow(period, first + k - 1, In(first + k - 1))]
    IN  SelectSeq(all, LAMBDA row : row.commits > 0)

BucketRows(period, commits_df) ==
    LET first == BucketOf(period, MinDate(commits_df))
        last == BucketOf(period, MaxDate(commits_df))
        In(b) == SelectSeq(commits_df, LAMBDA row : BucketOf(period, row.date) = b)
    IN  [k \in 1..(last - first + 1) |-> BucketRow(period, first + k - 1, In(first + k - 1))]

get_time_series_stats(r, f, period, since_date, until_date) ==
    LET commits_df == get_commit_stats(r, f, since_date, until_date, "HEAD")
    IN  IF IsRaised(commits_df) THEN commits_df
        ELSE IF commits_df.rows = <<>> THEN Table(<<>>)
        ELSE Table(BucketRows(period, commits_df.rows))

f_readme == <<"R", "E", "A", "D", "M", "E">>
f_app == <<"s", "r", "c", "/", "a", "p", "p", ".", "p", "y">>
f_hidden == <<".", "g", "i", "t", "i", "g", "n", "o", "r", "e">>
f_make == <<"d", "o", "c", "s", "/", "v", "1", ".", "2", "/", "M", "a", "k", "e", "f", "i", "l", "e">>
s_no_ext == <<"n", "o", "_", "e", "x", "t">>

\* os.path.splitext(path)[1]: from the last dot of the last path piece, when
\* a character other than a dot comes before it in that piece
RECURSIVE LastIndexOf(_, _, _)
LastIndexOf(s, c, i) == IF i = 0 \/ s[i] = c THEN i ELSE LastIndexOf(s, c, i - 1)

splitext_ext(path) ==
    LET sep == LastIndexOf(path, "/", Len(path))
        dot == LastIndexOf(path, ".", Len(path))
    IN  IF dot > sep /\ \E i \in (sep + 1)..(dot - 1) : path[i] # "."
        THEN SubSeq(path, dot, Len(path)) ELSE <<>>

\* file_changes, a dict in insertion order: a sequence of entries
AddFile(changes, file, name) ==
    IF \E i \in 1..Len(changes) : changes[i].file_path = file.path
    THEN [i \in 1..Len(changes) |->
             IF changes[i].file_path = file.path
             THEN [file_path |-> file.path,
                   modifications |-> changes[i].modifications + 1,
                   insertions |-> changes[i].insertions + file.insertions,
                   deletions |-> changes[i].deletions + file.deletions,
                   authors |-> changes[i].authors \cup {name}]
             ELSE changes[i]]
    ELSE Append(changes, [file_path |-> file.path, modifications |-> 1,
                          insertions |-> file.insertions,
                          deletions |-> file.deletions, authors |-> {name}])

RECURSIVE AddFiles(_, _, _)
AddFiles(changes, files, name) ==
    IF files = <<>> THEN changes
    ELSE AddFiles(AddFile(changes, Head(files), name), Tail(files), name)

\* the loop over the commits; a commit whose statistics cannot be read is
\* skipped
RECURSIVE FileChanges(_, _, _, _)
FileChanges(r, f, commits, changes) ==
    IF commits = <<>> THEN changes
    ELSE IF Head(commits) \in f.commits THEN FileChanges(r, f, Tail(commits), changes)
    ELSE FileChanges(r, f, Tail(commits),
             AddFiles(changes, r.files[Head(commits)], r.author[Head(commits)]))

get_file_stats(r, f, since_date, until_date) ==
    LET changes == FileChanges(r, f, CommitsOrNone(r, f, "HEAD", since_date, until_date), <<>>)
    IN  Table([i \in 1..Len(changes) |->
            LET ext == splitext_ext(changes[i].file_path)
            IN  [file_path |-> changes[i].file_path,
                 modifications |-> changes[i].modifications,
                 insertions |-> changes[i].insertions,
                 deletions |-> changes[i].deletions,
                 total_changes |-> changes[i].insertions + changes[i].deletions,
                 authors_count |-> Cardinality(changes[i].authors),
                 file_extension |-> IF ext = <<>> THEN s_no_ext ELSE ext]])

\* BranchRowsByHeadCommit tells the checked-out branch by comparing the tip
\* of the branch with the commit of HEAD, which never raises
RECURSIVE BranchRowsByHeadCommit(_, _, _)
BranchRowsByHeadCommit(r, f, i) ==
    LET branches == RepoBranches(r)
    IN  IF i > Len(branches) THEN <<>>
        ELSE IF \/ branches[i] \in f.branches
                \/ r.tips[branches[i]] \in f.commits
        THEN BranchRowsByHeadCommit(r, f, i + 1)
        ELSE <<[branch_name |-> branches[i],
                last_commit_hash |-> Short(r.tips[branches[i]]),
                last_commit_date |-> r.date[r.tips[branches[i]]],
                last_author |-> r.author[r.tips[branches[i]]],
                commits_count |-> Len(iter_commits(r, r.tips[branches[i]], NoLimit)),
                is_active |-> r.tips[branches[i]] = HeadCommit(r)]>>
             \o BranchRowsByHeadCommit(r, f, i + 1)

\* the loop of get_branch_stats over the branches; a branch is skipped when
\* anything raises for it: its tip cannot be read, its traversal fails, or
\* repo.active_branch raises
RECURSIVE BranchRows(_, _, _)
BranchRows(r, f, i) ==
    LET branches == RepoBranches(r)
    IN  IF i > Len(branches) THEN <<>>
        ELSE IF \/ branches[i] \in f.branches
                \/ r.tips[branches[i]] \in f.commits
                \/ ActiveBranchRaises(r)
        THEN BranchRows(r, f, i + 1)
        ELSE <<[branch_name |-> branches[i],
                last_commit_hash |-> Short(r.tips[branches[i]]),
                last_commit_date |-> r.date[r.tips[branches[i]]],
                last_author |-> r.author[r.tips[branches[i]]],
                commits_count |-> Len(iter_commits(r, r.tips[branches[i]], NoLimit)),
                is_active |-> branches[i] = r.active]>>
             \o BranchRows(r, f, i + 1)

get_branch_stats(r, f) == Table(IF f.enum THEN <<>> ELSE BranchRows(r, f, 1))

(***************************************************************************)
(* SpecStats: the queries on repositories whose commits differ in author,  *)
(* day and time of day, and on a repository without a commit               *)
(***************************************************************************)
\* a line of four commits, and two lines merged by the fourth
StatParentMaps ==
    {(H1 :> <<>>) @@ (H2 :> <<H1>>) @@ (H3 :> <<H2>>) @@ (H4 :> <<H3>>),
     (H1 :> <<>>) @@ (H2 :> <<H1>>) @@ (H3 :> <<H1>>) @@ (H4 :> <<H3, H2>>)}

\* 01-01 23h, 01-02 10h, 01-02 12h, 01-05 01h; days of two weeks; days of
\* January, February and April; four commits on one day
StatDateMaps ==
    {(H1 :> TS(0, 23)) @@ (H2 :> TS(1, 10)) @@ (H3 :> TS(1, 12)) @@ (H4 :> TS(4, 1)),
     (H1 :> TS(0, 9)) @@ (H2 :> TS(4, 17)) @@ (H3 :> TS(6, 10)) @@ (H4 :> TS(7, 8)),
     (H1 :> TS(0, 9)) @@ (H2 :> TS(30, 9)) @@ (H3 :> TS(31, 9)) @@ (H4 :> TS(95, 9)),
     (H1 :> TS(2, 1)) @@ (H2 :> TS(2, 5)) @@ (H3 :> TS(2, 6)) @@ (H4 :> TS(2, 23))}

StatAuthorMaps ==
    {[h \in Hashes |-> "alice"],
     (H1 :> "alice") @@ (H2 :> "bob") @@ (H3 :> "bob") @@ (H4 :> "alice"),
     (H1 :> "alice") @@ (H2 :> "Alice") @@ (H3 :> "bob") @@ (H4 :> "alice")}

StatTips == {(("dev" :> H2) @@ ("main" :> H4)), (("dev" :> H3) @@ ("main" :> H2))}

StatFiles ==
    (H1 :> <<[path |-> f_readme, insertions |-> 3, deletions |-> 0]>>)
    @@ (H2 :> <<[path |-> f_app, insertions |-> 5, deletions |-> 1],
               [path |-> f_hidden, insertions |-> 1, deletions |-> 0]>>)
    @@ (H3 :> <<[path |-> f_app, insertions |-> 0, deletions |-> 4]>>)
    @@ (H4 :> <<[path |-> f_make, insertions |-> 2, deletions |-> 2],
               [path |-> f_app, insertions |-> 1, deletions |-> 1],
               [path |-> f_readme, insertions |-> 0, deletions |-> 1]>>)

StatMessages ==
    (H1 :> h_Update \o r_foo) @@ (H2 :> ex_release)
    @@ (H3 :> ex_no_pattern) @@ (H4 :> ex_into_develop)

\* git init: no commit, no branch, HEAD on a branch that is not born yet
EmptyRepo ==
    [parents |-> <<>>, date |-> <<>>, message |-> <<>>, tips |-> <<>>,
     active |-> "main", author |-> <<>>, email |-> <<>>, files |-> <<>>]

StatRepos ==
    {[parents |-> p, date |-> d, message |-> StatMessages, tips |-> t, active |-> a,
      author |-> au, email |-> [h \in Hashes |-> <<au[h], "@", "x">>],
      files |-> StatFiles] :
        p \in StatParentMaps, d \in StatDateMaps, t \in StatTips,
        a \in {"main", DETACHED}, au \in StatAuthorMaps}
    \cup {EmptyRepo}

\* since_date / until_date: none, or the midnight that starts a day
StatSince == {NoDate, TS(1, 0)}
StatUntil == {NoDate, TS(4, 0)}

\* the branch argument of get_commit_stats: HEAD, a branch, a name no ref has
BranchArgs == {"HEAD", "dev", "nosuch"}

\* under these queries the enumeration or the reading of one commit may fail
StatFaults == {f \in Faults : f.branches = {}}

InitStats ==
    /\ repo \in StatRepos
    /\ query = "none"
    /\ faults = NoFaults
    /\ result = None
    /\ IdleClassify /\ IdleHandle /\ IdleOpen /\ IdleDb /\ IdleRecent

GetCommitStats ==
    /\ query = "none"
    /\ \E f \in StatFaults, since_date \in StatSince, until_date \in StatUntil,
          branch \in BranchArgs :
          /\ faults' = f
          /\ result' = [args |-> <<since_date, until_date, branch>>,
                        value |-> get_commit_stats(repo, f, since_date, until_date, branch)]
    /\ query' = "commit_stats"
    /\ UNCHANGED repo
    /\ UNCHANGED <<classifyVars, handleVars, openVars, dbVars, recentVars>>

GetAuthorStats ==
    /\ query = "none"
    /\ \E f \in StatFaults, since_date \in StatSince, until_date \in StatUntil :
          /\ faults' = f
          /\ result' = [args |-> <<since_date, until_date>>,
                        value |-> get_author_stats(repo, f, since_date, until_date)]
    /\ query' = "author_stats"
    /\ UNCHANGED repo
    /\ UNCHANGED <<classifyVars, handleVars, openVars, dbVars, recentVars>>

GetTimeSeriesStats ==
    /\ query = "none"
    /\ \E f \in StatFaults, period \in Periods,
          since_date \in StatSince, until_date \in StatUntil :
          /\ faults' = f
          /\ result' = [args |-> <<since_date, until_date, period>>,
                        value |-> get_time_series_stats(repo, f, period, since_date, until_date)]
    /\ query' = "time_series"
    /\ UNCHANGED repo
    /\ UNCHANGED <<classifyVars, handleVars, openVars, dbVars, recentVars>>

GetFileStats ==
    /\ query = "none"
    /\ \E f \in StatFaults, since_date \in StatSince, until_date \in StatUntil :
          /\ faults' = f
          /\ result' = [args |-> <<since_date, until_date>>,
                        value |-> get_file_stats(repo, f, since_date, until_date)]
    /\ query' = "file_stats"
    /\ UNCHANGED repo
    /\ UNCHANGED <<classifyVars, handleVars, openVars, dbVars, recentVars>>

GetBranchStats ==
    /\ query = "none"
    /\ \E f \in Faults :
          /\ faults' = f
          /\ result' = [args |-> <<>>, value |-> get_branch_stats(repo, f)]
    /\ query' = "branch_stats"
    /\ UNCHANGED repo
    /\ UNCHANGED <<classifyVars, handleVars, openVars, dbVars, recentVars>>

NextStats ==
    \/ GetCommitStats
    \/ GetAuthorStats
    \/ GetTimeSeriesStats
    \/ GetFileStats
    \/ GetBranchStats
    \/ GetBranchGraphData
    \/ GetMergeDirectionHistory
    \/ GetMergeStats
    \/ Discard

SpecStats == InitStats /\ [][NextStats]_vars

(***************************************************************************)
(* SpecHandle: the life of GitAnalyzer objects and of their temporary      *)
(* clone directories, with the threads that run queries on them            *)
(***************************************************************************)
\* the analyzer of main() and the one a cached query function creates
Handles == {"analyzer", "cached"}
Threads == {"t1", "t2"}
IDLE == "idle"
NoDir == <<>>          \* self.temp_dir = None

\* tempfile.mkdtemp(prefix="git_analyzer_"): a directory no one else has
mkdtemp(h) == <<"git_analyzer_", h>>

\* shutil.rmtree
rmtree(dirs, d) == dirs \ {d}

\* the except clause of _handle_remote_repo, before it raises again;
\* CloneFailureKeepsDir raises without the clean-up
CloneFailureKeepsDir(dirs, d) == dirs

CloneFailureCleanup(dirs, d) == IF d \in dirs THEN rmtree(dirs, d) ELSE dirs

\* the threads inside a method of the object: each holds it as self
Readers(h) == {t \in Threads : at[t] = h}

\* __del__ runs only on an object nothing refers to any more;
\* DroppedByOwner forgets the references of the running method calls
DroppedByOwner(h) == ~owner[h]

Unreferenced(h) == ~owner[h] /\ Readers(h) = {}

InitHandle ==
    /\ hstate = [h \in Handles |-> "absent"]
    /\ remote = [h \in Handles |-> FALSE]
    /\ temp_dir = [h \in Handles |-> NoDir]
    /\ owner = [h \in Handles |-> FALSE]
    /\ fs = {}
    /\ at = [t \in Threads |-> IDLE]
    /\ qpc = [t \in Threads |-> "idle"]
    /\ saw_missing = {}
    /\ IdleClassify /\ IdleRepo /\ IdleOpen /\ IdleDb /\ IdleRecent

\* __init__ up to the try: repo_path, is_remote, temp_dir = None
NewHandle(h) ==
    /\ hstate[h] = "absent"
    /\ \E is_remote \in BOOLEAN : remote' = [remote EXCEPT ![h] = is_remote]
    /\ hstate' = [hstate EXCEPT ![h] = "init"]
    /\ temp_dir' = [temp_dir EXCEPT ![h] = NoDir]
    /\ owner' = [owner EXCEPT ![h] = TRUE]
    /\ UNCHANGED <<fs, at, qpc, saw_missing>>
    /\ UNCHANGED <<classifyVars, repoVars, openVars, dbVars, recentVars>>

\* git.Repo(repo_path) on a local path: the repository opens, or ValueError
OpenLocal(h) ==
    /\ hstate[h] = "init" /\ ~remote[h]
    /\ \E valid \in BOOLEAN :
          hstate' = [hstate EXCEPT ![h] = IF valid THEN "open" ELSE "raised"]
    /\ UNCHANGED <<remote, temp_dir, owner, fs, at, qpc, saw_missing>>
    /\ UNCHANGED <<classifyVars, repoVars, openVars, dbVars, recentVars>>

\* _handle_remote_repo up to the clone: the temporary directory is made
MakeTempDir(h) ==
    /\ hstate[h] = "init" /\ remote[h]
    /\ temp_dir' = [temp_dir EXCEPT ![h] = mkdtemp(h)]
    /\ fs' = fs \cup {mkdtemp(h)}
    /\ hstate' = [hstate EXCEPT ![h] = "cloning"]
    /\ UNCHANGED <<remote, owner, at, qpc, saw_missing>>
    /\ UNCHANGED <<classifyVars, repoVars, openVars, dbVars, recentVars>>

\* clone_from returns: the constructor returns the object
CloneSucceeds(h) ==
    /\ hstate[h] = "cloning"
    /\ hstate' = [hstate EXCEPT ![h] = "open"]
    /\ UNCHANGED <<remote, temp_dir, owner, fs, at, qpc, saw_missing>>
    /\ UNCHANGED <<classifyVars, repoVars, openVars, dbVars, recentVars>>

\* clone_from raises: the except clause runs, the exception leaves
\* _handle_remote_repo and __init__ hands the caller a ValueError
CloneFails(h) ==
    /\ hstate[h] = "cloning"
    /\ fs' = CloneFailureCleanup(fs, temp_dir[h])
    /\ hstate' = [hstate EXCEPT ![h] = "raised"]
    /\ UNCHANGED <<remote, temp_dir, owner, at, qpc, saw_missing>>
    /\ UNCHANGED <<classifyVars, repoVars, openVars, dbVars, recentVars>>

\* a thread that was given the object calls one of its query methods
StartQuery(t, h) ==
    /\ at[t] = IDLE
    /\ hstate[h] = "open" /\ owner[h]
    /\ at' = [at EXCEPT ![t] = h]
    /\ qpc' = [qpc EXCEPT ![t] = "called"]
    /\ UNCHANGED <<hstate, remote, temp_dir, owner, fs, saw_missing>>
    /\ UNCHANGED <<classifyVars, repoVars, openVars, dbVars, recentVars>>

\* the query reads the repository: for a remote handle, the clone directory
ReadRepo(t) ==
    /\ at[t] # IDLE /\ qpc[t] = "called"
    /\ qpc' = [qpc EXCEPT ![t] = "read"]
    /\ saw_missing' = IF remote[at[t]] /\ temp_dir[at[t]] \notin fs
                      THEN saw_missing \cup {t} ELSE saw_missing
    /\ UNCHANGED <<hstate, remote, temp_dir, owner, fs, at>>
    /\ UNCHANGED <<classifyVars, repoVars, openVars, dbVars, recentVars>>

\* the query returns its result
QueryReturns(t) ==
    /\ at[t] # IDLE /\ qpc[t] = "read"
    /\ at' = [at EXCEPT ![t] = IDLE]
    /\ qpc' = [qpc EXCEPT ![t] = "returned"]
    /\ UNCHANGED <<hstate, remote, temp_dir, owner, fs, saw_missing>>
    /\ UNCHANGED <<classifyVars, repoVars, openVars, dbVars, recentVars>>

\* the query raises
QueryRaises(t) ==
    /\ at[t] # IDLE
    /\ at' = [at EXCEPT ![t] = IDLE]
    /\ qpc' = [qpc EXCEPT ![t] = "raised"]
    /\ UNCHANGED <<hstate, remote, temp_dir, owner, fs, saw_missing>>
    /\ UNCHANGED <<classifyVars, repoVars, openVars, dbVars, recentVars>>

\* the creator lets go of the object: main() or the cached function returns,
\* the except clause that caught the ValueError ends
DropOwner(h) ==
    /\ hstate[h] \in {"open", "raised"} /\ owner[h]
    /\ owner' = [owner EXCEPT ![h] = FALSE]
    /\ UNCHANGED <<hstate, remote, temp_dir, fs, at, qpc, saw_missing>>
    /\ UNCHANGED <<classifyVars, repoVars, openVars, dbVars, recentVars>>

\* __del__, whenever the collector gets to the object; an exception of
\* rmtree is swallowed and leaves the directory
Finalize(h) ==
    /\ hstate[h] \in {"open", "raised"}
    /\ Unreferenced(h)
    /\ \E rmtree_ok \in BOOLEAN :
          fs' = IF temp_dir[h] # NoDir /\ temp_dir[h] \in fs /\ rmtree_ok
                THEN rmtree(fs, temp_dir[h]) ELSE fs
    /\ hstate' = [hstate EXCEPT ![h] = "finalized"]
    /\ UNCHANGED <<remote, temp_dir, owner, at, qpc, saw_missing>>
    /\ UNCHANGED <<classifyVars, repoVars, openVars, dbVars, recentVars>>

NextHandle ==
    \/ \E h \in Handles :
          \/ NewHandle(h)
          \/ OpenLocal(h)
          \/ MakeTempDir(h)
          \/ CloneSucceeds(h)
          \/ CloneFails(h)
          \/ DropOwner(h)
          \/ Finalize(h)
    \/ \E t \in Threads :
          \/ \E h \in Handles : StartQuery(t, h)
          \/ ReadRepo(t)
          \/ QueryReturns(t)
          \/ QueryRaises(t)

SpecHandle == InitHandle /\ [][NextHandle]_vars

(***************************************************************************)
(* RepositoryHandle: the remote test, the URL normalisation, the           *)
(* constructor and get_repo_info                                           *)
(***************************************************************************)
\* str.startswith
startswith(s, prefix) ==
    Len(s) >= Len(prefix) /\ SubSeq(s, 1, Len(prefix)) = prefix

\* str.split('/'): the pieces between the slashes, empty pieces kept
RECURSIVE SplitFrom(_, _, _)
SplitFrom(s, cur, out) ==
    IF s = <<>> THEN Append(out, cur)
    ELSE IF Head(s) = "/" THEN SplitFrom(Tail(s), <<>>, Append(out, cur))
    ELSE SplitFrom(Tail(s), Append(cur, Head(s)), out)

split(s) == SplitFrom(s, <<>>, <<>>)

\* str.replace(old, ''): every occurrence of old is removed, left to right
RECURSIVE replace_with_empty(_, _)
replace_with_empty(s, old) ==
    IF Len(s) < Len(old) THEN s
    ELSE IF startswith(s, old)
         THEN replace_with_empty(SubSeq(s, Len(old) + 1, Len(s)), old)
         ELSE <<Head(s)>> \o replace_with_empty(Tail(s), old)

\* '/'.join(parts)
RECURSIVE join(_)
join(parts) ==
    IF parts = <<>> THEN <<>>
    ELSE IF Len(parts) = 1 THEN parts[1]
    ELSE parts[1] \o <<"/">> \o join(Tail(parts))

s_http == <<"h", "t", "t", "p", ":", "/", "/">>
s_https == <<"h", "t", "t", "p", "s", ":", "/", "/">>
s_git == <<"g", "i", "t", ":", "/", "/">>
s_ssh == <<"s", "s", "h", ":", "/", "/">>
s_gitat == <<"g", "i", "t", "@">>
s_dotgit == <<".", "g", "i", "t">>
s_githubcom == <<"g", "i", "t", "h", "u", "b", ".", "c", "o", "m">>
s_gitlabcom == <<"g", "i", "t", "l", "a", "b", ".", "c", "o", "m">>
s_bitbucketorg == <<"b", "i", "t", "b", "u", "c", "k", "e", "t", ".", "o", "r", "g">>
s_github_prefix == <<"h", "t", "t", "p", "s", ":", "/", "/", "g", "i", "t", "h", "u", "b", ".", "c", "o", "m", "/">>
s_m == <<"m">>
s_dot == <<".">>
s_dotdot == <<".", ".">>

remote_patterns == <<s_http, s_https, s_git, s_ssh, s_gitat, s_dotgit,
                     s_githubcom, s_gitlabcom, s_bitbucketorg>>

\* _is_remote_url, and is_remote_repo_url of app.py, which is the same text
is_remote_url(path) ==
    LET p == lower(strip(path))
        parts == split(p)
    IN  IF \E i \in 1..Len(remote_patterns) : Contains(remote_patterns[i], p)
        THEN TRUE
        ELSE Len(parts) >= 2 /\ ~startswith(p, <<"/">>) /\ ~Contains(<<".">>, parts[1])

\* f"https://github.com/{user}/{repo}.git"
github_url(user, name) == s_github_prefix \o user \o <<"/">> \o name \o s_dotgit

\* _normalize_remote_url, and normalize_remote_url of app.py, which is the
\* same text; normalize_remote_url_short rewrites m/user/repo to user/repo.git
normalize_remote_url_short(repo_input) ==
    LET s == strip(repo_input)
        parts == split(s)
    IN  IF \E scheme \in {s_http, s_https, s_git, s_ssh} : startswith(s, scheme) THEN s
        ELSE IF startswith(s, s_gitat) THEN s
        ELSE IF Contains(<<"/">>, s) /\ Len(parts) = 3 /\ parts[1] = s_m
        THEN parts[2] \o <<"/">> \o replace_with_empty(parts[3], s_dotgit) \o s_dotgit
        ELSE IF Contains(<<"/">>, s) /\ Len(parts) = 2
        THEN github_url(parts[1], replace_with_empty(parts[2], s_dotgit))
        ELSE s

normalize_remote_url(repo_input) ==
    LET s == strip(repo_input)
        parts == split(s)
    IN  IF \E scheme \in {s_http, s_https, s_git, s_ssh} : startswith(s, scheme) THEN s
        ELSE IF startswith(s, s_gitat) THEN s
        ELSE IF Contains(<<"/">>, s) /\ Len(parts) = 3 /\ parts[1] = s_m
        THEN github_url(parts[2], replace_with_empty(parts[3], s_dotgit))
        ELSE IF Contains(<<"/">>, s) /\ Len(parts) = 2
        THEN github_url(parts[1], replace_with_empty(parts[2], s_dotgit))
        ELSE s

s_origin == <<"o", "r", "i", "g", "i", "n">>
s_head_detached == <<"H", "E", "A", "D", " ", "(", "d", "e", "t", "a", "c", "h", "e", "d", ")">>
Cwd == <<"/", "h", "o", "m", "e", "/", "u", "s", "e", "r", "/", "w", "o", "r", "k">>
p_https == <<"h", "t", "t", "p", "s", ":", "/", "/">>
p_HTTP == <<"H", "T", "T", "P", ":", "/", "/">>
p_gitat == <<"g", "i", "t", "@">>
p_root == <<"/">>
p_m == <<"m", "/">>
p_rel == <<".", "/">>
b_ownerrepo == <<"o", "w", "n", "e", "r", "/", "r", "e", "p", "o">>
b_owner == <<"o", "w", "n", "e", "r">>
b_mydirsub == <<"m", "y", ".", "d", "i", "r", "/", "s", "u", "b">>
b_githubio == <<"o", "w", "n", "e", "r", "/", "m", "y", ".", "g", "i", "t", "h", "u", "b", ".", "i", "o">>
b_abc == <<"a", "/", "b", "/", "c">>
b_host == <<"G", "i", "t", "H", "u", "b", ".", "c", "o", "m", "/", "o", "w", "n", "e", "r", "/", "r", "e", "p", "o">>
b_up == <<".", ".", "/", "r", "e", "p", "o">>
x_dotgit == <<".", "g", "i", "t">>
x_sub == <<"/", "x">>

\* os.path.normpath: empty and "." pieces dropped, ".." takes the piece before
\* it away, one or exactly two leading slashes kept
RECURSIVE NormComps(_, _, _)
NormComps(comps, new_comps, rooted) ==
    IF comps = <<>> THEN new_comps
    ELSE LET comp == Head(comps)
             n == Len(new_comps)
         IN  IF comp = <<>> \/ comp = s_dot
             THEN NormComps(Tail(comps), new_comps, rooted)
             ELSE IF comp # s_dotdot \/ (~rooted /\ n = 0)
                     \/ (n > 0 /\ new_comps[n] = s_dotdot)
             THEN NormComps(Tail(comps), Append(new_comps, comp), rooted)
             ELSE IF n > 0
             THEN NormComps(Tail(comps), SubSeq(new_comps, 1, n - 1), rooted)
             ELSE NormComps(Tail(comps), new_comps, rooted)

normpath(path) ==
    IF path = <<>> THEN s_dot
    ELSE LET initial_slashes ==
                 IF ~startswith(path, <<"/">>) THEN 0
                 ELSE IF startswith(path, <<"/", "/">>) /\ ~startswith(path, <<"/", "/", "/">>)
                 THEN 2 ELSE 1
             body == join(NormComps(split(path), <<>>, initial_slashes > 0))
             out == [i \in 1..initial_slashes |-> "/"] \o body
         IN  IF out = <<>> THEN s_dot ELSE out

\* os.path.abspath, the process being in Cwd
abspath(path) ==
    IF startswith(path, <<"/">>) THEN normpath(path)
    ELSE normpath(Cwd \o <<"/">> \o path)

\* what get_repo_info reads of the repository that was opened: HEAD, the
\* local branches and the remotes; the clone of a remote handle has the one
\* branch it was made of and the remote "origin"
ClonedRepo(url) ==
    [head |-> "main", branches |-> <<"main">>,
     remotes |-> <<[name |-> s_origin, url |-> url]>>]

LocalRepos ==
    {[head |-> hd, branches |-> Branches, remotes |-> rs] :
        hd \in {"main", DETACHED, "broken"},
        rs \in {<<>>, <<[name |-> s_origin, url |-> github_url(b_owner, b_owner)]>>}}

\* __init__: the object with its attributes, or the ValueError it raises
\* (opened tells whether git.Repo / clone_from succeeded)
GitAnalyzerInit(path, opened, local_repo) ==
    LET is_remote == is_remote_url(path)
    IN  IF ~opened THEN Raised("ValueError")
        ELSE [kind |-> "GitAnalyzer",
              repo_path |-> path,
              is_remote |-> is_remote,
              temp_dir |-> IF is_remote THEN mkdtemp("analyzer") ELSE NoDir,
              repo |-> IF is_remote THEN ClonedRepo(normalize_remote_url(path))
                       ELSE local_repo]

\* get_repo_info: the dict it returns, a record of its keys
get_repo_info(self) ==
    [path |-> abspath(self.repo_path),
     remote_urls |-> self.repo.remotes,
     current_branch |->
         IF self.repo.head = "broken" THEN s_unknown
         ELSE IF self.repo.head = DETACHED THEN s_head_detached
         ELSE self.repo.head,
     total_branches |-> Len(self.repo.branches),
     is_bare |-> FALSE]

(***************************************************************************)
(* SpecOpen: one text given as repository, the functions applied to it     *)
(***************************************************************************)
Pads == {<<>>, <<" ">>}
Prefixes == {<<>>, p_https, p_HTTP, p_gitat, p_root, p_m, p_rel}
Bodies == {b_ownerrepo, b_owner, b_mydirsub, b_githubio, b_abc, b_host, b_up}
Suffixes == {<<>>, x_dotgit, x_sub}
Ends == {<<>>, <<NL>>}

RepoInputs ==
    {a \o p \o b \o x \o e :
        a \in Pads, p \in Prefixes, b \in Bodies, x \in Suffixes, e \in Ends}

InitOpen ==
    /\ repo_path \in RepoInputs
    /\ upc = "input"
    /\ analyzer = None
    /\ uout = None
    /\ IdleClassify /\ IdleRepo /\ IdleHandle /\ IdleDb /\ IdleRecent

IsRemoteUrl ==
    /\ upc = "input"
    /\ uout' = is_remote_url(repo_path)
    /\ upc' = "is_remote"
    /\ UNCHANGED <<repo_path, analyzer>>
    /\ UNCHANGED <<classifyVars, repoVars, handleVars, dbVars, recentVars>>

NormalizeRemoteUrl ==
    /\ upc = "input"
    /\ uout' = normalize_remote_url(repo_path)
    /\ upc' = "normalized"
    /\ UNCHANGED <<repo_path, analyzer>>
    /\ UNCHANGED <<classifyVars, repoVars, handleVars, dbVars, recentVars>>

\* the normalized text is given to the function once more
NormalizeAgain ==
    /\ upc = "normalized"
    /\ uout' = normalize_remote_url(uout)
    /\ upc' = "renormalized"
    /\ UNCHANGED <<repo_path, analyzer>>
    /\ UNCHANGED <<classifyVars, repoVars, handleVars, dbVars, recentVars>>

\* GitAnalyzer(repo_path)
Construct ==
    /\ upc = "input"
    /\ \E opened \in BOOLEAN, local_repo \in LocalRepos :
          analyzer' = GitAnalyzerInit(repo_path, opened, local_repo)
    /\ upc' = "constructed"
    /\ UNCHANGED <<repo_path, uout>>
    /\ UNCHANGED <<classifyVars, repoVars, handleVars, dbVars, recentVars>>

GetRepoInfo ==
    /\ upc = "constructed" /\ analyzer.kind = "GitAnalyzer"
    /\ uout' = get_repo_info(analyzer)
    /\ upc' = "repo_info"
    /\ UNCHANGED <<repo_path, analyzer>>
    /\ UNCHANGED <<classifyVars, repoVars, handleVars, dbVars, recentVars>>

NextOpen ==
    \/ IsRemoteUrl
    \/ NormalizeRemoteUrl
    \/ NormalizeAgain
    \/ Construct
    \/ GetRepoInfo

SpecOpen == InitOpen /\ [][NextOpen]_vars

(***************************************************************************)
(* GitHubIntegration.parse_repo_url of src/github_integration.py:          *)
(* re.match without flags on three patterns, then str.rstrip('.git')       *)
(***************************************************************************)
g_http == <<"h", "t", "t", "p">>
g_s == <<"s">>
g_github == <<":", "/", "/", "g", "i", "t", "h", "u", "b", ".", "c", "o", "m", "/">>
g_gitat_github == <<"g", "i", "t", "@", "g", "i", "t", "h", "u", "b", ".", "c", "o", "m", ":">>
g_https_github == <<"h", "t", "t", "p", "s", ":", "/", "/", "g", "i", "t", "h", "u", "b", ".", "c", "o", "m", "/">>
g_http_github == <<"h", "t", "t", "p", ":", "/", "/", "g", "i", "t", "h", "u", "b", ".", "c", "o", "m", "/">>
g_https_gitlab == <<"h", "t", "t", "p", "s", ":", "/", "/", "g", "i", "t", "l", "a", "b", ".", "c", "o", "m", "/">>
w_widget == <<"o", "w", "n", "e", "r", "/", "w", "i", "d", "g", "e", "t">>
w_git == <<"o", "w", "n", "e", "r", "/", "g", "i", "t">>
w_spaced == <<"m", "y", " ", "o", "r", "g", "/", "r", "e", " ", "p", "o">>

\* the elements of the three patterns: a literal, an optional literal,
\* ([^/]+), ([^/]+?) and $
RLit(text) == [kind |-> "lit", text |-> text]
ROpt(text) == [kind |-> "opt", text |-> text]
RGroup == [kind |-> "plus", text |-> <<>>]
RLazyGroup == [kind |-> "lazyplus", text |-> <<>>]
REnd == [kind |-> "end", text |-> <<>>]

\* the literal is at pos, letter for letter
ExactAt(text, s, pos) ==
    /\ pos + Len(text) - 1 <= Len(s)
    /\ \A i \in 1..Len(text) : s[pos + i - 1] = text[i]

\* length of the longest run of characters other than "/" starting at pos
RECURSIVE RunNoSlash(_, _)
RunNoSlash(s, pos) ==
    IF pos <= Len(s) /\ s[pos] # "/" THEN 1 + RunNoSlash(s, pos + 1) ELSE 0

RECURSIVE RMatchFrom(_, _, _, _, _)
RECURSIVE RTryGreedy(_, _, _, _, _, _)
RECURSIVE RTryLazy(_, _, _, _, _, _, _)

RMatchFrom(pat, k, s, pos, caps) ==
    IF k > Len(pat) THEN [ok |-> TRUE, groups |-> caps]
    ELSE CASE pat[k].kind = "lit" ->
                IF ExactAt(pat[k].text, s, pos)
                THEN RMatchFrom(pat, k + 1, s, pos + Len(pat[k].text), caps)
                ELSE NoMatch
           [] pat[k].kind = "opt" ->
                LET with == IF ExactAt(pat[k].text, s, pos)
                            THEN RMatchFrom(pat, k + 1, s, pos + Len(pat[k].text), caps)
                            ELSE NoMatch
                IN  IF with.ok THEN with ELSE RMatchFrom(pat, k + 1, s, pos, caps)
           [] pat[k].kind = "plus" ->
                RTryGreedy(pat, k, s, pos, caps, RunNoSlash(s, pos))
           [] pat[k].kind = "lazyplus" ->
                RTryLazy(pat, k, s, pos, caps, 1, RunNoSlash(s, pos))
           [] OTHER ->
                IF pos = Len(s) + 1 \/ (pos = Len(s) /\ s[pos] = NL)
                THEN RMatchFrom(pat, k + 1, s, pos, caps)
                ELSE NoMatch

RTryGreedy(pat, k, s, pos, caps, n) ==
    IF n < 1 THEN NoMatch
    ELSE LET r == RMatchFrom(pat, k + 1, s, pos + n,
                             Append(caps, SubSeq(s, pos, pos + n - 1)))
         IN  IF r.ok THEN r ELSE RTryGreedy(pat, k, s, pos, caps, n - 1)

RTryLazy(pat, k, s, pos, caps, n, longest) ==
    IF n > longest THEN NoMatch
    ELSE LET r == RMatchFrom(pat, k + 1, s, pos + n,
                             Append(caps, SubSeq(s, pos, pos + n - 1)))
         IN  IF r.ok THEN r ELSE RTryLazy(pat, k, s, pos, caps, n + 1, longest)

\* re.match: the match that starts at the first character
re_match(pat, s) == RMatchFrom(pat, 1, s, 1, <<>>)

github_url_patterns ==
    << << RLit(g_http), ROpt(g_s), RLit(g_github), RGroup, RLit(<<"/">>),
          RLazyGroup, ROpt(s_dotgit), ROpt(<<"/">>), REnd >>,
       << RLit(g_gitat_github), RGroup, RLit(<<"/">>), RLazyGroup, ROpt(s_dotgit), REnd >>,
       << RGroup, RLit(<<"/">>), RGroup, REnd >> >>

\* str.rstrip(chars): characters of the set removed at the end
RECURSIVE rstrip_chars(_, _)
rstrip_chars(s, chars) ==
    IF s # <<>> /\ s[Len(s)] \in chars
    THEN rstrip_chars(SubSeq(s, 1, Len(s) - 1), chars) ELSE s

\* the loop over the patterns, from pattern i on
RECURSIVE ParseWith(_, _)
ParseWith(repo_input, i) ==
    IF i > Len(github_url_patterns) THEN Raised("ValueError")
    ELSE LET match == re_match(github_url_patterns[i], repo_input)
         IN  IF match.ok
             THEN [kind |-> "tuple", owner |-> match.groups[1],
                   repo |-> rstrip_chars(match.groups[2], Range(s_dotgit))]
             ELSE ParseWith(repo_input, i + 1)

parse_repo_url(repo_input) == ParseWith(strip(repo_input), 1)

(***************************************************************************)
(* SpecParse: one text given to parse_repo_url                             *)
(***************************************************************************)
ParsePrefixes == {<<>>, g_https_github, g_http_github, g_gitat_github, g_https_gitlab}
ParseBodies == {b_ownerrepo, w_widget, w_git, w_spaced, b_githubio, b_owner, b_abc}
ParseSuffixes == {<<>>, s_dotgit, <<"/">>, s_dotgit \o <<"/">>, s_dotgit \o s_dotgit}

ParseInputs ==
    {a \o p \o b \o x \o e :
        a \in Pads, p \in ParsePrefixes, b \in ParseBodies, x \in ParseSuffixes,
        e \in Ends}

InitParse ==
    /\ repo_path \in ParseInputs
    /\ upc = "input"
    /\ analyzer = None
    /\ uout = None
    /\ IdleClassify /\ IdleRepo /\ IdleHandle /\ IdleDb /\ IdleRecent

ParseRepoUrl ==
    /\ upc = "input"
    /\ uout' = parse_repo_url(repo_path)
    /\ upc' = "parsed"
    /\ UNCHANGED <<repo_path, analyzer>>
    /\ UNCHANGED <<classifyVars, repoVars, handleVars, dbVars, recentVars>>

NextParse == ParseRepoUrl

SpecParse == InitParse /\ [][NextParse]_vars

(***************************************************************************)
(* SpecSession: one handle and the queries made on it one after the other, *)
(* on a repository nobody writes to.  The calls are kept with the state of *)
(* the handle and of the repository before and after each.                 *)
(***************************************************************************)
MaxCalls == 2

\* what the Repo object of the handle shows of the repository
RepoView(r) == [head |-> r.active, branches |-> RepoBranches(r), remotes |-> <<>>]

SessionRepos ==
    {r \in StatRepos :
        r = EmptyRepo \/ (r.date[H1] = TS(0, 23) /\ r.author[H2] = "bob")}

\* a local directory, a GitHub shorthand
SessionPaths == {b_owner, b_ownerrepo}

InitSession ==
    /\ repo \in SessionRepos
    /\ \E path \in SessionPaths : analyzer = GitAnalyzerInit(path, TRUE, RepoView(repo))
    /\ query = "none"
    /\ faults = NoFaults
    /\ result = <<>>
    /\ repo_path = <<>> /\ upc = "idle" /\ uout = None
    /\ IdleClassify /\ IdleHandle /\ IdleDb /\ IdleRecent

\* the method returns value to the caller, who keeps it
Returned(q, args, value) ==
    /\ Len(result) < MaxCalls
    /\ result' = Append(result, [query |-> q, args |-> args, value |-> value,
                                 before |-> <<analyzer, repo>>,
                                 after |-> <<analyzer', repo'>>])
    /\ query' = q
    /\ UNCHANGED <<faults, repo_path, upc, uout>>
    /\ UNCHANGED <<classifyVars, handleVars, dbVars, recentVars>>

SessionGetRepoInfo ==
    /\ UNCHANGED <<analyzer, repo>>
    /\ Returned("repo_info", <<>>, get_repo_info(analyzer))

SessionGetCommitStats ==
    /\ UNCHANGED <<analyzer, repo>>
    /\ \E since_date \in StatSince, branch \in {"HEAD", "nosuch"} :
          Returned("commit_stats", <<since_date, NoDate, branch>>,
                   get_commit_stats(repo, faults, since_date, NoDate, branch))

SessionGetMergeStats ==
    /\ UNCHANGED <<analyzer, repo>>
    /\ Returned("merge_stats", <<NoDate, NoDate>>,
                get_merge_stats(repo, faults, NoDate, NoDate))

SessionGetAuthorStats ==
    /\ UNCHANGED <<analyzer, repo>>
    /\ \E since_date \in StatSince :
          Returned("author_stats", <<since_date, NoDate>>,
                   get_author_stats(repo, faults, since_date, NoDate))

SessionGetFileStats ==
    /\ UNCHANGED <<analyzer, repo>>
    /\ \E until_date \in StatUntil :
          Returned("file_stats", <<NoDate, until_date>>,
                   get_file_stats(repo, faults, NoDate, until_date))

\* SessionGetBranchStatsCheckout reads each branch by checking it out, and
\* leaves HEAD on the last one
SessionGetBranchStatsCheckout ==
    /\ analyzer' = analyzer
    /\ repo' = IF RepoBranches(repo) = <<>> THEN repo
               ELSE [repo EXCEPT !.active = RepoBranches(repo)[Len(RepoBranches(repo))]]
    /\ Returned("branch_stats", <<>>, get_branch_stats(repo, faults))

SessionGetBranchStats ==
    /\ UNCHANGED <<analyzer, repo>>
    /\ Returned("branch_stats", <<>>, get_branch_stats(repo, faults))

SessionGetTimeSeriesStats ==
    /\ UNCHANGED <<analyzer, repo>>
    /\ \E period \in Periods :
          Returned("time_series", <<NoDate, NoDate, period>>,
                   get_time_series_stats(repo, faults, period, NoDate, NoDate))

SessionGetBranchGraphData ==
    /\ UNCHANGED <<analyzer, repo>>
    /\ Returned("graph", <<>>, get_branch_graph_data(repo, faults))

SessionGetMergeDirectionHistory ==
    /\ UNCHANGED <<analyzer, repo>>
    /\ Returned("merge_direction", <<>>, get_merge_direction_history(repo, faults))

NextSession ==
    \/ SessionGetRepoInfo
    \/ SessionGetCommitStats
    \/ SessionGetMergeStats
    \/ SessionGetAuthorStats
    \/ SessionGetFileStats
    \/ SessionGetBranchStats
    \/ SessionGetTimeSeriesStats
    \/ SessionGetBranchGraphData
    \/ SessionGetMergeDirectionHistory

SpecSession == InitSession /\ [][NextSession]_vars

(***************************************************************************)
(* MRDatabase: the SQLite file of src/mr_database.py.  A table is the      *)
(* sequence of its rows in the order of their ids; of a row the columns    *)
(* that a query of the class filters, joins, orders or counts by are kept. *)
(* The connections never set PRAGMA foreign_keys, so the REFERENCES        *)
(* clauses of the schema are not enforced.                                  *)
(***************************************************************************)
ValidStatus == {"open", "closed", "merged"}
ValidOperation == {"approve", "reject", "view", "comment"}
ValidRiskLevel == {"low", "medium", "high", "critical"}

\* a value returned to the caller
Ok(v) == [kind |-> "ok", value |-> v]

\* the text of a point in time: 'YYYY-MM-DD HH:MM:SS' as CURRENT_TIMESTAMP
\* and datetime('now', ...) write it, 'YYYY-MM-DDTHH:MM:SS+00:00' as
\* datetime.isoformat() writes it
Stamp(ts) == [date |-> ts \div DayLen, sep |-> " ", time |-> ts % DayLen]
IsoStamp(ts) == [date |-> ts \div DayLen, sep |-> "T", time |-> ts % DayLen]

\* a < b of two TEXT values that hold such texts: character by character,
\* the date first, then " " before "T", then the time of day
TextLess(a, b) ==
    \/ a.date < b.date
    \/ /\ a.date = b.date
       /\ \/ a.sep = " " /\ b.sep = "T"
          \/ a.sep = b.sep /\ a.time < b.time

\* the orders ORDER BY ... DESC may return the rows in: rows of equal key
\* come in any order
SortedDesc(rows, Less(_, _)) ==
    LET n == Len(rows)
        perms == {p \in [1..n -> 1..n] : \A i, j \in 1..n : p[i] = p[j] => i = j}
    IN  {[i \in 1..n |-> rows[p[i]]] :
            p \in {q \in perms : \A i, j \in 1..n : i < j => ~Less(rows[q[i]], rows[q[j]])}}

\* LIMIT n
Limit(rows, n) == SubSeq(rows, 1, IF Len(rows) < n THEN Len(rows) ELSE n)

\* init_database on a file that does not exist yet
EmptyDb ==
    [pull_requests |-> <<>>, review_results |-> <<>>, operation_history |-> <<>>,
     sqlite_sequence |-> [pull_requests |-> 0, review_results |-> 0,
                          operation_history |-> 0]]

\* the rows of pull_requests with that (repo_url, pr_number)
RowsOfKey(d, repo_url, pr_number) ==
    {i \in 1..Len(d.pull_requests) :
        /\ d.pull_requests[i].repo_url = repo_url
        /\ d.pull_requests[i].pr_number = pr_number}

\* insert_or_update_pr: UPDATE, INSERT when no row was updated, SELECT id;
\* a CHECK that fails raises and the connection rolls back
insert_or_update_pr(d, pr_data) ==
    LET hit == RowsOfKey(d, pr_data.repo_url, pr_data.pr_number)
        pr_id == d.sqlite_sequence.pull_requests + 1
    IN  IF pr_data.status \notin ValidStatus
        THEN [db |-> d, out |-> Raised("IntegrityError")]
        ELSE IF hit # {}
        THEN [db |-> [d EXCEPT !.pull_requests =
                         [i \in 1..Len(d.pull_requests) |->
                             IF i \in hit
                             THEN [d.pull_requests[i] EXCEPT !.title = pr_data.title,
                                                             !.status = pr_data.status]
                             ELSE d.pull_requests[i]]],
              out |-> Ok(d.pull_requests[CHOOSE i \in hit : \A j \in hit : i <= j].id)]
        ELSE [db |-> [d EXCEPT !.pull_requests =
                         Append(d.pull_requests,
                                [id |-> pr_id, repo_url |-> pr_data.repo_url,
                                 pr_number |-> pr_data.pr_number, title |-> pr_data.title,
                                 status |-> pr_data.status,
                                 created_at |-> pr_data.created_at]),
                      !.sqlite_sequence.pull_requests = pr_id],
              out |-> Ok(pr_id)]

\* insert_review_result; reviewed_at is CURRENT_TIMESTAMP, a risk_level that
\* was not given ("") is stored as NULL
insert_review_result(d, pr_id, review_data, now) ==
    LET review_id == d.sqlite_sequence.review_results + 1
    IN  IF review_data.risk_level # "" /\ review_data.risk_level \notin ValidRiskLevel
        THEN [db |-> d, out |-> Raised("IntegrityError")]
        ELSE [db |-> [d EXCEPT !.review_results =
                         Append(d.review_results,
                                [id |-> review_id, pr_id |-> pr_id,
                                 score |-> review_data.score,
                                 risk_level |-> review_data.risk_level,
                                 reviewed_at |-> Stamp(now)]),
                      !.sqlite_sequence.review_results = review_id],
              out |-> Ok(review_id)]

\* record_operation_rowcount returns cursor.rowcount, the number of rows the
\* INSERT wrote
record_operation_rowcount(d, pr_id, operation, operator, now) ==
    LET operation_id == d.sqlite_sequence.operation_history + 1
    IN  IF operation \notin ValidOperation
        THEN [db |-> d, out |-> Raised("IntegrityError")]
        ELSE [db |-> [d EXCEPT !.operation_history =
                         Append(d.operation_history,
                                [id |-> operation_id, pr_id |-> pr_id,
                                 operation |-> operation, operator |-> operator,
                                 operation_time |-> Stamp(now)]),
                      !.sqlite_sequence.operation_history = operation_id],
              out |-> Ok(1)]

\* record_operation; operation_time is CURRENT_TIMESTAMP
record_operation(d, pr_id, operation, operator, now) ==
    LET operation_id == d.sqlite_sequence.operation_history + 1
    IN  IF operation \notin ValidOperation
        THEN [db |-> d, out |-> Raised("IntegrityError")]
        ELSE [db |-> [d EXCEPT !.operation_history =
                         Append(d.operation_history,
                                [id |-> operation_id, pr_id |-> pr_id,
                                 operation |-> operation, operator |-> operator,
                                 operation_time |-> Stamp(now)]),
                      !.sqlite_sequence.operation_history = operation_id],
              out |-> Ok(operation_id)]

ReviewsOf(d, pr_id) == SelectSeq(d.review_results, LAMBDA rv : rv.pr_id = pr_id)
OperationsOf(d, pr_id) == SelectSeq(d.operation_history, LAMBDA oh : oh.pr_id = pr_id)

\* MAX(oh.operation_time) of a group: NULL without an operation
MaxOperationTime(ops) ==
    IF ops = <<>> THEN None
    ELSE LET i == CHOOSE k \in 1..Len(ops) :
                      \A j \in 1..Len(ops) : ~TextLess(ops[k].operation_time,
                                                        ops[j].operation_time)
         IN  ops[i].operation_time

\* the rows one pull request has in pr LEFT JOIN rv LEFT JOIN oh: one for
\* each pair of a review and an operation of it, a side without a row
\* counting as one row of NULLs
JoinedRows(d, pr) ==
    LET rvs == ReviewsOf(d, pr.id)
        ops == OperationsOf(d, pr.id)
    IN  {<<i, j>> : i \in (IF rvs = <<>> THEN {0} ELSE 1..Len(rvs)),
                    j \in (IF ops = <<>> THEN {0} ELSE 1..Len(ops))}

\* GROUP BY pr.id: COUNT(oh.id) counts the joined rows whose oh.id is not NULL
GroupRow(d, pr) ==
    [id |-> pr.id, repo_url |-> pr.repo_url, pr_number |-> pr.pr_number,
     title |-> pr.title, status |-> pr.status, created_at |-> pr.created_at,
     operation_count |-> Cardinality({x \in JoinedRows(d, pr) : x[2] # 0}),
     last_operation_time |-> MaxOperationTime(OperationsOf(d, pr.id))]

\* get_recent_prs: the lists it may return.  A filter that is None or empty
\* is not applied.  Of a row the review columns, which SQLite takes from
\* one of the joined rows of the group, are left out.
get_recent_prs(d, repo_url, days, status, now) ==
    LET wanted == SelectSeq(d.pull_requests, LAMBDA pr :
                      /\ ~TextLess(pr.created_at, Stamp(now - days * DayLen))
                      /\ (repo_url = "" \/ pr.repo_url = repo_url)
                      /\ (status = "" \/ pr.status = status))
        rows == [i \in 1..Len(wanted) |-> GroupRow(d, wanted[i])]
    IN  SortedDesc(rows, LAMBDA a, b : TextLess(a.created_at, b.created_at))

\* get_pr_details: None, or the lists it may return
get_pr_details(d, pr_id) ==
    LET found == SelectSeq(d.pull_requests, LAMBDA pr : pr.id = pr_id)
    IN  IF found = <<>> THEN {None}
        ELSE {[kind |-> "dict", pr |-> found[1], reviews |-> rvs, operations |-> ops] :
                 rvs \in SortedDesc(ReviewsOf(d, pr_id),
                                    LAMBDA a, b : TextLess(a.reviewed_at, b.reviewed_at)),
                 ops \in SortedDesc(OperationsOf(d, pr_id),
                                    LAMBDA a, b : TextLess(a.operation_time, b.operation_time))}

\* oh.* with pr.title, pr.pr_number and pr.repo_url of its pull request
JoinedOperation(d, oh) ==
    LET pr == d.pull_requests[CHOOSE i \in 1..Len(d.pull_requests) :
                                  d.pull_requests[i].id = oh.pr_id]
    IN  [id |-> oh.id, pr_id |-> oh.pr_id, operation |-> oh.operation,
         operator |-> oh.operator, operation_time |-> oh.operation_time,
         pr_title |-> pr.title, pr_number |-> pr.pr_number, repo_url |-> pr.repo_url]

\* get_operation_history: the lists it may return; the JOIN keeps the
\* operations whose pull request exists
get_operation_history(d, limit) ==
    LET kept == SelectSeq(d.operation_history, LAMBDA oh :
                    \E i \in 1..Len(d.pull_requests) : d.pull_requests[i].id = oh.pr_id)
        joined == [i \in 1..Len(kept) |-> JoinedOperation(d, kept[i])]
    IN  {Limit(rows, limit) :
            rows \in SortedDesc(joined, LAMBDA a, b :
                                    TextLess(a.operation_time, b.operation_time))}

\* cleanup_old_data: DELETE FROM pull_requests, nothing else
cleanup_old_data(d, days, now) ==
    [d EXCEPT !.pull_requests =
        SelectSeq(d.pull_requests, LAMBDA pr :
            ~TextLess(pr.created_at, Stamp(now - days * DayLen)))]

\* db.get_pr_id_by_number(repo_url, pr_number), as src/test_comment_fix.py
\* calls it: class MRDatabase defines no attribute of that name
get_pr_id_by_number(d, repo_url, pr_number) == Raised("AttributeError")

(***************************************************************************)
(* SpecPr: insert_or_update_pr and the look-up by key on a new database    *)
(***************************************************************************)
Now0 == TS(200, 12)

\* the pull requests GitHub has: each with the time it was opened
PrKeys == {<<"a", 1>>, <<"a", 2>>, <<"b", 1>>}
CreatedAt(key) ==
    IF key = <<"a", 1>> THEN IsoStamp(TS(199, 9))
    ELSE IF key = <<"a", 2>> THEN IsoStamp(TS(100, 10))
    ELSE IsoStamp(TS(110, 10))

PrData(key, title, status) ==
    [repo_url |-> key[1], pr_number |-> key[2], title |-> title, status |-> status,
     created_at |-> CreatedAt(key)]

PrInputs ==
    {PrData(key, title, status) :
        key \in PrKeys, title \in {"t1", "t2"}, status \in {"open", "merged", "draft"}}

Called(name, args) == [name |-> name, args |-> args, before |-> db]

InitPr ==
    /\ db = EmptyDb
    /\ clock = Now0
    /\ dbcall = [name |-> "__init__", args |-> <<>>, before |-> EmptyDb]
    /\ dbout = None
    /\ IdleClassify /\ IdleRepo /\ IdleHandle /\ IdleOpen /\ IdleRecent

InsertOrUpdatePr ==
    /\ \E pr_data \in PrInputs :
          LET done == insert_or_update_pr(db, pr_data)
          IN  /\ db' = done.db
              /\ dbout' = done.out
              /\ dbcall' = Called("insert_or_update_pr", <<pr_data>>)
    /\ UNCHANGED clock
    /\ UNCHANGED <<classifyVars, repoVars, handleVars, openVars, recentVars>>

GetPrIdByNumber ==
    /\ \E key \in PrKeys :
          /\ dbout' = get_pr_id_by_number(db, key[1], key[2])
          /\ dbcall' = Called("get_pr_id_by_number", key)
    /\ UNCHANGED <<db, clock>>
    /\ UNCHANGED <<classifyVars, repoVars, handleVars, openVars, recentVars>>

NextPr ==
    \/ InsertOrUpdatePr
    \/ GetPrIdByNumber

SpecPr == InitPr /\ [][NextPr]_vars

(***************************************************************************)
(* SpecDb: reviews, operations, the listings and the clean-up on a         *)
(* database that holds the three pull requests                             *)
(***************************************************************************)
MaxRows == 3

\* what three calls of insert_or_update_pr leave in a new database
Populated ==
    LET d1 == insert_or_update_pr(EmptyDb, PrData(<<"a", 1>>, "t1", "open")).db
        d2 == insert_or_update_pr(d1, PrData(<<"a", 2>>, "t1", "merged")).db
    IN  insert_or_update_pr(d2, PrData(<<"b", 1>>, "t2", "open")).db

InitDb ==
    /\ db = Populated
    /\ clock = Now0
    /\ dbcall = [name |-> "__init__", args |-> <<>>, before |-> Populated]
    /\ dbout = None
    /\ IdleClassify /\ IdleRepo /\ IdleHandle /\ IdleOpen /\ IdleRecent

\* CURRENT_TIMESTAMP of a call: the second the clock showed last, or a later
\* one; the clock is read again by the next call that writes a row
Seconds == {clock, clock + 1}

RowsWritten == Len(db.review_results) + Len(db.operation_history)

ReviewInputs == {<<1, "low">>, <<2, "low">>, <<1, "severe">>}
OperationInputs == {<<1, "comment">>, <<2, "approve">>, <<1, "merge">>}

InsertReviewResult ==
    /\ RowsWritten < MaxRows
    /\ \E in \in ReviewInputs, now \in Seconds :
          LET review_data == [score |-> 80, risk_level |-> in[2]]
              done == insert_review_result(db, in[1], review_data, now)
          IN  /\ db' = done.db
              /\ dbout' = done.out
              /\ dbcall' = Called("insert_review_result", <<in[1], review_data>>)
              /\ clock' = IF IsRaised(done.out) THEN clock ELSE now
    /\ UNCHANGED <<classifyVars, repoVars, handleVars, openVars, recentVars>>

RecordOperation ==
    /\ RowsWritten < MaxRows
    /\ \E in \in OperationInputs, now \in Seconds :
          LET done == record_operation(db, in[1], in[2], "u", now)
          IN  /\ db' = done.db
              /\ dbout' = done.out
              /\ dbcall' = Called("record_operation", in)
              /\ clock' = IF IsRaised(done.out) THEN clock ELSE now
    /\ UNCHANGED <<classifyVars, repoVars, handleVars, openVars, recentVars>>

RecentPrsInputs == {<<"", 120, "">>, <<"a", 120, "open">>, <<"", 30, "">>}

GetRecentPrs ==
    /\ \E in \in RecentPrsInputs :
          /\ \E rows \in get_recent_prs(db, in[1], in[2], in[3], clock) :
                 dbout' = Ok(rows)
          /\ dbcall' = Called("get_recent_prs", in)
    /\ UNCHANGED <<db, clock>>
    /\ UNCHANGED <<classifyVars, repoVars, handleVars, openVars, recentVars>>

GetPrDetails ==
    /\ \E pr_id \in {1, 2} :
          /\ \E details \in get_pr_details(db, pr_id) : dbout' = Ok(details)
          /\ dbcall' = Called("get_pr_details", <<pr_id>>)
    /\ UNCHANGED <<db, clock>>
    /\ UNCHANGED <<classifyVars, repoVars, handleVars, openVars, recentVars>>

GetOperationHistory ==
    /\ \E limit \in {1, 50} :
          /\ \E rows \in get_operation_history(db, limit) : dbout' = Ok(rows)
          /\ dbcall' = Called("get_operation_history", <<limit>>)
    /\ UNCHANGED <<db, clock>>
    /\ UNCHANGED <<classifyVars, repoVars, handleVars, openVars, recentVars>>

CleanupOldData ==
    /\ \E days \in {30, 90} :
          /\ db' = cleanup_old_data(db, days, clock)
          /\ dbcall' = Called("cleanup_old_data", <<days>>)
    /\ dbout' = None
    /\ UNCHANGED clock
    /\ UNCHANGED <<classifyVars, repoVars, handleVars, openVars, recentVars>>

NextDb ==
    \/ InsertReviewResult
    \/ RecordOperation
    \/ GetRecentPrs
    \/ GetPrDetails
    \/ GetOperationHistory
    \/ CleanupOldData

SpecDb == InitDb /\ [][NextDb]_vars

(***************************************************************************)
(* Properties of the merge classifier                                      *)
(***************************************************************************)
\* what pattern i of merge_patterns finds in the stripped message
MatchOf(i) == re_search(merge_patterns[i], strip(message))

s_featurex == <<"f", "e", "a", "t", "u", "r", "e", "-", "x">>

\* C1: the source and target branch of _analyze_merge_commit are those of the
\* first of the four patterns, in their fixed order, that matches the message:
\* patterns 1 and 4 give both captures, patterns 2 and 3 give the capture and
\* "main"; "Merge branch 'feature-x' into develop" gives (feature-x, develop)
\* and "Merge branch 'feature-x'" gives (feature-x, main).
C1_FirstPatternDecides ==
    (cpc = "analyzed" /\ cout.kind = "merge") =>
        LET m1 == MatchOf(1)
            m2 == MatchOf(2)
            m3 == MatchOf(3)
            m4 == MatchOf(4)
            src == cout.source_branch
            tgt == cout.target_branch
        IN  /\ m1.ok => src = m1.groups[1] /\ tgt = m1.groups[2]
            /\ (~m1.ok /\ m2.ok) => src = m2.groups[1] /\ tgt = s_main
            /\ (~m1.ok /\ ~m2.ok /\ m3.ok) => src = m3.groups[1] /\ tgt = s_main
            /\ (~m1.ok /\ ~m2.ok /\ ~m3.ok /\ m4.ok) =>
                   src = m4.groups[1] /\ tgt = m4.groups[2]
            /\ message = ex_into_develop => src = s_featurex /\ tgt = t_develop
            /\ message = ex_branch_only => src = s_featurex /\ tgt = s_main

\* a message that patterns 1 and 2 both match has been analyzed
C1_Witness ==
    /\ cpc = "analyzed"
    /\ cout.kind = "merge"
    /\ message = ex_into_develop
    /\ MatchOf(1).ok /\ MatchOf(2).ok
    /\ cout.source_branch = s_featurex
    /\ cout.target_branch = t_develop

\* the lower-cased message contains the substring
Has(sub) == Contains(sub, lower(message))

MergeTypes == {"Pull Request", "Feature Branch", "Hotfix", "Release Branch",
               "Development Branch", "Regular Merge"}

\* C3: _classify_merge_type returns exactly one of six tags, by substring tests
\* without case in the priority pull request / pr, feature, hotfix / fix,
\* release, develop, else Regular Merge; a lower tag only when no higher
\* substring occurs; "Merge pull request #12 from fix/login" is Pull Request.
C3_ClassifyPriority ==
    cpc = "classified" =>
        LET pr == Has(s_pullrequest) \/ Has(s_pr)
            fe == Has(s_feature)
            fx == Has(s_hotfix) \/ Has(s_fix)
            re == Has(s_release)
            de == Has(s_develop)
        IN  /\ ctype \in MergeTypes
            /\ ctype = "Pull Request" <=> pr
            /\ ctype = "Feature Branch" <=> (~pr /\ fe)
            /\ ctype = "Hotfix" <=> (~pr /\ ~fe /\ fx)
            /\ ctype = "Release Branch" <=> (~pr /\ ~fe /\ ~fx /\ re)
            /\ ctype = "Development Branch" <=> (~pr /\ ~fe /\ ~fx /\ ~re /\ de)
            /\ ctype = "Regular Merge" <=> (~pr /\ ~fe /\ ~fx /\ ~re /\ ~de)
            /\ message = ex_pull_request => ctype = "Pull Request"

\* the pull-request message with a "fix" in it has been classified
C3_Witness ==
    /\ cpc = "classified"
    /\ message = ex_pull_request
    /\ Has(s_fix)
    /\ ctype = "Pull Request"

(***************************************************************************)
(* Properties of the queries on a repository                               *)
(***************************************************************************)
\* no pattern of merge_patterns matches the stripped message
NoPatternMatches(msg) ==
    \A i \in 1..Len(merge_patterns) : ~re_search(merge_patterns[i], strip(msg)).ok

\* the records of the result for the commit
RecordsOf(h) == {i \in 1..Len(result) : result[i].full_hash = h}

\* C2: a merge commit whose message matches none of the four patterns still
\* gets its record in get_merge_direction_history, with source and target
\* "unknown": whether a visited merge commit has a record depends on whether
\* the commit can be read, never on whether a pattern matches.
C2_PatternMissKeepsRecord ==
    (query = "merge_direction" /\ ~faults.enum) =>
        \A h \in Range(iter_commits(repo, HeadCommit(repo), HistoryCap)) :
            Len(repo.parents[h]) > 1 =>
                /\ Cardinality(RecordsOf(h)) = (IF h \in faults.commits THEN 0 ELSE 1)
                /\ \A i \in RecordsOf(h) :
                       NoPatternMatches(repo.message[h]) =>
                           /\ result[i].source_branch = s_unknown
                           /\ result[i].target_branch = s_unknown

\* "Merge foo bar baz" on a merge commit: its record says unknown / unknown
C2_Witness ==
    /\ query = "merge_direction"
    /\ \E i \in 1..Len(result) :
          /\ repo.message[result[i].full_hash] = ex_no_pattern
          /\ NoPatternMatches(ex_no_pattern)
          /\ result[i].source_branch = s_unknown
          /\ result[i].target_branch = s_unknown

\* the commits the traversal of a branch reaches (within max_count), and the
\* commits that can be reached from its tip at all
Reached(b) == Range(iter_commits(repo, repo.tips[b], GraphCap))
Reachable(b) == Range(iter_commits(repo, repo.tips[b], NoLimit))

\* the entries of graph_data['commits'] for the commit
NodesOf(h) == {i \in 1..Len(result.commits) : result.commits[i].full_hash = h}

\* C4 as stated: every commit hash is in at most one node, and a commit that
\* can be reached from two branch tips is in exactly one node, which names
\* both branches (here with nothing failing).
C4_Original ==
    (query = "graph" /\ faults = NoFaults) =>
        \A h \in Hashes :
            /\ Cardinality(NodesOf(h)) <= 1
            /\ (\A b \in BranchNames : h \in Reachable(b)) =>
                   /\ Cardinality(NodesOf(h)) = 1
                   /\ \A i \in NodesOf(h) :
                          BranchNames \subseteq Range(result.commits[i].branches)

\* C4, amended: every commit hash is in at most one node, no node names a
\* branch twice, a node names exactly the branches whose traversal (the first
\* max_count commits from the tip) returned its commit, and a commit that the
\* traversals of two branches returned and that can be read is in exactly
\* one node, which names both.
C4_Amended ==
    query = "graph" =>
        \A h \in Hashes :
            LET reaching == {b \in BranchNames \ faults.branches : h \in Reached(b)}
            IN  /\ Cardinality(NodesOf(h)) <= 1
                /\ \A i \in NodesOf(h) :
                       LET bs == result.commits[i].branches
                       IN  /\ Range(bs) = reaching
                           /\ Len(bs) = Cardinality(reaching)
                /\ (~faults.enum /\ reaching # {} /\ h \notin faults.commits) =>
                       Cardinality(NodesOf(h)) = 1

\* a node that names both branches, next to a commit that both tips reach
\* but only one traversal returned
C4_Witness ==
    /\ query = "graph"
    /\ faults = NoFaults
    /\ \E i \in 1..Len(result.commits) : Len(result.commits[i].branches) = 2
    /\ \E h \in Hashes :
          /\ \A b \in BranchNames : h \in Reachable(b)
          /\ \E b \in BranchNames : h \notin Reached(b)

\* the parent relations of the nodes that give the edge (source, target)
ParentPairs(source, target) ==
    {x \in (1..Len(result.commits)) \X (1..Len(OrderedHashes)) :
        /\ x[2] <= Len(result.commits[x[1]].parents)
        /\ Short(result.commits[x[1]].parents[x[2]]) = source
        /\ result.commits[x[1]].hash = target}

EdgesLike(source, target) ==
    {k \in 1..Len(result.edges) :
        result.edges[k].source = source /\ result.edges[k].target = target}

RECURSIVE SumParents(_)
SumParents(commits) ==
    IF commits = <<>> THEN 0 ELSE Len(Head(commits).parents) + SumParents(Tail(commits))

ShortHashes == {Short(h) : h \in Hashes}

\* C5: the edge list holds one edge (first 8 characters of the parent hash ->
\* short hash of the node) for every parent of every node: as many edges as
\* the nodes have parents, each pair as often as the parent relation occurs;
\* an edge whose parent is no node is kept, equal edges are kept.
C5_OneEdgePerParent ==
    query = "graph" =>
        /\ Len(result.edges) = SumParents(result.commits)
        /\ \A source \in ShortHashes, target \in ShortHashes :
               Cardinality(EdgesLike(source, target)) =
                   Cardinality(ParentPairs(source, target))

\* an edge whose parent is no node, and two equal edges
C5_Witness ==
    /\ query = "graph"
    /\ \E k \in 1..Len(result.edges) :
          \A i \in 1..Len(result.commits) :
              result.commits[i].hash # result.edges[k].source
    /\ \E k1 \in 1..Len(result.edges), k2 \in 1..Len(result.edges) :
          k1 # k2 /\ result.edges[k1] = result.edges[k2]

\* C6: when the traversal of a branch fails in get_branch_graph_data, the
\* call returns its graph, no node names the failed branch, and every commit
\* the traversal of another branch returned (and that can be read) is a node
\* naming that other branch.
C6_FailedBranchSkipped ==
    (query = "graph" /\ ~faults.enum /\ faults.branches # {}) =>
        /\ DOMAIN result = DOMAIN EmptyGraph
        /\ \A i \in 1..Len(result.commits) :
               Range(result.commits[i].branches) \cap faults.branches = {}
        /\ \A b \in BranchNames \ faults.branches :
               \A h \in Reached(b) \ faults.commits :
                   \E i \in NodesOf(h) : b \in Range(result.commits[i].branches)

\* the first branch of the loop failed and the commits of the other are nodes
C6_Witness ==
    /\ query = "graph"
    /\ faults.branches = {Branches[1]}
    /\ faults.commits = {}
    /\ Len(result.commits) = GraphCap
    /\ \A i \in 1..Len(result.commits) : result.commits[i].branches = <<Branches[2]>>

\* C7: a commit counts as a merge exactly when it has more than one parent:
\* a node of get_branch_graph_data has is_merge iff its parents list is longer
\* than 1, and every record of get_merge_stats and of
\* get_merge_direction_history is of a commit with more than one parent.
C7_MergeIffSeveralParents ==
    /\ query = "graph" =>
           \A i \in 1..Len(result.commits) :
               /\ result.commits[i].is_merge <=> Len(result.commits[i].parents) > 1
               /\ result.commits[i].parents = repo.parents[result.commits[i].full_hash]
    /\ query \in {"merge_stats", "merge_direction"} =>
           \A i \in 1..Len(result) :
               /\ result[i].parents_count > 1
               /\ result[i].parents_count = Len(repo.parents[result[i].full_hash])

\* a graph with a merge node and a one-parent node
C7_Witness ==
    /\ query = "graph"
    /\ \E i \in 1..Len(result.commits) :
          result.commits[i].is_merge /\ Len(result.commits[i].parents) = 2
    /\ \E i \in 1..Len(result.commits) :
          ~result.commits[i].is_merge /\ Len(result.commits[i].parents) = 1

C9_RemovedOnDisposal ==
    \A h \in Handles :
        (remote[h] /\ hstate[h] \in {"open", "finalized"} /\ Unreferenced(h)) =>
            temp_dir[h] \notin fs

\* C10: while a query runs on a remote handle its clone directory is not
\* torn down: a running query has its directory, and none found it gone.
C10_NoTeardownUnderQuery ==
    /\ saw_missing = {}
    /\ \A t \in Threads :
           (at[t] # IDLE /\ remote[at[t]]) => temp_dir[at[t]] \in fs

\* two queries run on one remote handle that its creator has let go of
C10_Witness ==
    \E h \in Handles :
        /\ remote[h] /\ ~owner[h]
        /\ Readers(h) = Threads
        /\ \E t \in Threads : qpc[t] = "read"
        /\ \E t \in Threads : qpc[t] = "called"

(***************************************************************************)
(* Properties of the remote test, the normalisation and get_repo_info      *)
(***************************************************************************)
\* C11: _normalize_remote_url is idempotent: the text it returns, given to it
\* once more, comes back as it is.
C11_NormalizeIdempotent ==
    upc = "renormalized" => uout = normalize_remote_url(repo_path)

\* "m/owner/repo" was rewritten by the first call and kept by the second
C11_Witness ==
    /\ upc = "renormalized"
    /\ repo_path = p_m \o b_ownerrepo
    /\ uout = github_url(b_owner, <<"r", "e", "p", "o">>)
    /\ uout # strip(repo_path)

\* the text starts with a scheme or with git@ and is returned as it is
IsFullUrl(s) ==
    \/ \E scheme \in {s_http, s_https, s_git, s_ssh} : startswith(s, scheme)
    \/ startswith(s, s_gitat)

\* s without old at its end, when it ends with old
removesuffix(s, old) ==
    IF Len(s) >= Len(old) /\ SubSeq(s, Len(s) - Len(old) + 1, Len(s)) = old
    THEN SubSeq(s, 1, Len(s) - Len(old)) ELSE s

\* C12 as stated: a two-segment text seg1/seg2 that is no full URL gives
\* https://github.com/seg1/R.git and a three-segment text m/seg2/seg3 gives
\* https://github.com/seg2/R.git, R being the last segment without a trailing
\* ".git" and otherwise unchanged.
C12_ShorthandRewritten ==
    upc = "normalized" =>
        LET s == strip(repo_path)
            parts == split(s)
            R == removesuffix(parts[Len(parts)], s_dotgit)
        IN  ~IsFullUrl(s) =>
                /\ Len(parts) = 2 => uout = github_url(parts[1], R)
                /\ (Len(parts) = 3 /\ parts[1] = s_m) => uout = github_url(parts[2], R)

\* C13 as stated: a text is remote exactly when it contains one of the nine
\* substrings, or has two or three segments, no dot in the first and no
\* leading slash; every other text is local.
C13_RemoteExactly ==
    upc = "is_remote" =>
        LET p == lower(strip(repo_path))
            parts == split(p)
        IN  uout <=>
                \/ \E i \in 1..Len(remote_patterns) : Contains(remote_patterns[i], p)
                \/ /\ Len(parts) \in {2, 3}
                   /\ ~Contains(<<".">>, parts[1])
                   /\ ~startswith(p, <<"/">>)

RemoteKeys == {"is_remote", "original_path", "temp_dir"}

\* C14 as stated: the dict of get_repo_info has path, current branch, branch
\* count and remote list; for a remote handle it also has the remote marker,
\* the text the user gave and the path of the temporary clone, for a local
\* handle it has none of the three.
C14_RemoteInfoReturned ==
    upc = "repo_info" =>
        /\ {"path", "current_branch", "total_branches", "remote_urls"} \subseteq DOMAIN uout
        /\ ~analyzer.is_remote => RemoteKeys \cap DOMAIN uout = {}
        /\ analyzer.is_remote =>
               /\ RemoteKeys \subseteq DOMAIN uout
               /\ uout.is_remote
               /\ uout.original_path = analyzer.repo_path
               /\ uout.temp_dir = analyzer.temp_dir

(***************************************************************************)
(* Properties of the statistics queries                                    *)
(***************************************************************************)
TableQueries == {"commit_stats", "author_stats", "time_series", "file_stats", "branch_stats"}

\* C15: get_commit_stats with a branch reference that does not resolve
\* returns a table without rows and raises nothing, whatever the date bounds.
C15_InvalidBranchGivesEmpty ==
    (query = "commit_stats" /\ ~Resolves(repo, result.args[3])) =>
        result.value = Table(<<>>)

\* a name no ref has, with a lower date bound, on a repository with commits
C15_Witness ==
    /\ query = "commit_stats"
    /\ repo # EmptyRepo
    /\ result.args[3] = "nosuch"
    /\ result.args[1] # NoDate
    /\ faults = NoFaults
    /\ result.value = Table(<<>>)

\* the commits the query of the result walks, with the date bounds it was given
WalkedCommits ==
    Range(CommitsOrNone(repo, faults,
              IF query = "commit_stats" THEN result.args[3] ELSE "HEAD",
              result.args[1], result.args[2]))

\* C16 as stated: when one commit cannot be processed (its diff statistics
\* cannot be read), no aggregate query raises: the commit is skipped and the
\* rows of the other commits are returned.
C16_CommitFailureSkipped ==
    (query \in {"commit_stats", "author_stats", "time_series", "file_stats"}
         /\ faults.commits # {}) =>
        /\ ~IsRaised(result.value)
        /\ query = "commit_stats" =>
               \A h \in WalkedCommits \ faults.commits :
                   \E i \in 1..Len(result.value.rows) : result.value.rows[i].full_hash = h

\* C17: on a repository without a commit every query returns an empty result
\* (a table without rows, a graph without nodes, edges and branches) and
\* none raises.
C17_EmptyRepoGivesEmpty ==
    (repo = EmptyRepo /\ query # "none") =>
        /\ query \in TableQueries => result.value = Table(<<>>)
        /\ query = "graph" => result = EmptyGraph
        /\ query \in {"merge_stats", "merge_direction"} => result = <<>>

\* get_author_stats has returned on the repository without a commit
C17_Witness ==
    /\ repo = EmptyRepo
    /\ query = "author_stats"
    /\ faults = NoFaults
    /\ result.value = Table(<<>>)

DayOf(ts) == ts \div DayLen

\* C18 as stated: active_days of an author is the number of calendar days
\* from the day of the first to the day of the last commit, both counted,
\* whatever the times of day: 1 for one commit, 5 for 01-01 and 01-05.
C18_ActiveDaysCalendar ==
    (query = "author_stats" /\ ~IsRaised(result.value)) =>
        \A i \in 1..Len(result.value.rows) :
            LET row == result.value.rows[i]
            IN  row.active_days = DayOf(row.last_commit) - DayOf(row.first_commit) + 1

\* the rows get_commit_stats gives for the date bounds of the result
CommitRowsOfResult ==
    get_commit_stats(repo, faults, result.args[1], result.args[2], "HEAD").rows

RECURSIVE CountWhere(_, _)
CountWhere(rows, name) ==
    IF rows = <<>> THEN 0
    ELSE (IF Head(rows).author = name THEN 1 ELSE 0) + CountWhere(Tail(rows), name)

RECURSIVE SumWhere(_, _, _)
SumWhere(rows, name, k) ==
    IF rows = <<>> THEN 0
    ELSE (IF Head(rows).author = name THEN Head(rows)[k] ELSE 0) + SumWhere(Tail(rows), name, k)

\* C19: get_author_stats has one row per author name (compared as it is) of
\* get_commit_stats for the same date bounds; the row counts the commits of
\* that name and sums their files, insertions, deletions and lines; the
\* columns add up to the totals over all commits, and total_lines_changed =
\* total_insertions + total_deletions in every row.
C19_OneRowPerAuthorName ==
    (query = "author_stats" /\ ~IsRaised(result.value)) =>
        LET rows == result.value.rows
            commits == CommitRowsOfResult
        IN  /\ {rows[i].author : i \in 1..Len(rows)} = {commits[i].author : i \in 1..Len(commits)}
            /\ \A i \in 1..Len(rows), j \in 1..Len(rows) :
                   rows[i].author = rows[j].author => i = j
            /\ \A i \in 1..Len(rows) :
                   LET name == rows[i].author
                   IN  /\ rows[i].commits_count = CountWhere(commits, name)
                       /\ rows[i].total_files_changed = SumWhere(commits, name, "files_changed")
                       /\ rows[i].total_insertions = SumWhere(commits, name, "insertions")
                       /\ rows[i].total_deletions = SumWhere(commits, name, "deletions")
                       /\ rows[i].total_lines_changed = SumWhere(commits, name, "lines_changed")
                       /\ rows[i].total_lines_changed =
                              rows[i].total_insertions + rows[i].total_deletions
            /\ SumField(rows, "commits_count") = Len(commits)
            /\ SumField(rows, "total_files_changed") = SumField(commits, "files_changed")
            /\ SumField(rows, "total_insertions") = SumField(commits, "insertions")
            /\ SumField(rows, "total_deletions") = SumField(commits, "deletions")
            /\ SumField(rows, "total_lines_changed") = SumField(commits, "lines_changed")

\* a table with a row for "Alice" and a row for "alice"
C19_Witness ==
    /\ query = "author_stats"
    /\ ~IsRaised(result.value)
    /\ \E i \in 1..Len(result.value.rows) : result.value.rows[i].author = "Alice"
    /\ \E i \in 1..Len(result.value.rows) :
          result.value.rows[i].author = "alice" /\ result.value.rows[i].commits_count = 2

\* the label of the bucket that follows the bucket with the label
NextLabel(period, label) ==
    CASE period = "D" -> label + DayLen
      [] period = "W" -> label + 7 * DayLen
      [] OTHER -> TS(MonthStarts[MonthOf(DayOf(label)) + 2] - 1, 0)

\* the rows of the commits that fall into the bucket with the label
InBucket(period, label, commits) ==
    SelectSeq(commits,
        LAMBDA row : BucketLabel(period, BucketOf(period, row.date)) = label)

\* C20: get_time_series_stats has every commit of the range in exactly one
\* bucket: the bucket rows count the commits and sum their files, insertions,
\* deletions and lines, and the columns add up to the totals; the buckets are
\* consecutive from the bucket of the earliest to the bucket of the latest
\* commit; a bucket without a commit is a row of zeros.
C20_BucketsPartitionCommits ==
    (query = "time_series" /\ ~IsRaised(result.value) /\ result.value.rows # <<>>) =>
        LET rows == result.value.rows
            commits == CommitRowsOfResult
            period == result.args[3]
        IN  /\ SumField(rows, "commits") = Len(commits)
            /\ SumField(rows, "files_changed") = SumField(commits, "files_changed")
            /\ SumField(rows, "insertions") = SumField(commits, "insertions")
            /\ SumField(rows, "deletions") = SumField(commits, "deletions")
            /\ SumField(rows, "lines_changed") = SumField(commits, "lines_changed")
            /\ rows[1].date = BucketLabel(period, BucketOf(period, MinDate(commits)))
            /\ rows[Len(rows)].date = BucketLabel(period, BucketOf(period, MaxDate(commits)))
            /\ \A k \in 1..(Len(rows) - 1) : rows[k + 1].date = NextLabel(period, rows[k].date)
            /\ \A k \in 1..Len(rows) :
                   LET in == InBucket(period, rows[k].date, commits)
                   IN  /\ rows[k].commits = Len(in)
                       /\ rows[k].lines_changed = SumField(in, "lines_changed")
                       /\ rows[k].unique_authors = Cardinality({in[i].author : i \in 1..Len(in)})
                       /\ rows[k].commits = 0 =>
                              /\ rows[k].files_changed = 0 /\ rows[k].insertions = 0
                              /\ rows[k].deletions = 0 /\ rows[k].lines_changed = 0
                              /\ rows[k].unique_authors = 0

\* daily buckets with a day without a commit between two days with commits
C20_Witness ==
    /\ query = "time_series"
    /\ ~IsRaised(result.value)
    /\ result.args[3] = "D"
    /\ \E k \in 2..(Len(result.value.rows) - 1) :
          /\ result.value.rows[k].commits = 0
          /\ result.value.rows[k].unique_authors = 0
          /\ result.value.rows[k - 1].commits = 2

\* the branches get_branch_stats could read under the faults of the call
ReadableBranches ==
    IF faults.enum THEN {}
    ELSE {b \in Range(RepoBranches(repo)) :
              b \notin faults.branches /\ repo.tips[b] \notin faults.commits}

ActiveRows == {i \in 1..Len(result.value.rows) : result.value.rows[i].is_active}

\* C21: in the result of get_branch_stats exactly one row has is_active true
\* when HEAD is attached to a local branch, the row of that branch (provided
\* the branch itself could be read), and no row has it when HEAD is detached.
C21_OneActiveBranch ==
    query = "branch_stats" =>
        /\ repo.active \in ReadableBranches =>
               /\ Cardinality(ActiveRows) = 1
               /\ \A i \in ActiveRows : result.value.rows[i].branch_name = repo.active
        /\ repo.active = DETACHED => ActiveRows = {}

\* HEAD on main: two rows, the one of main is the active one
C21_Witness ==
    /\ query = "branch_stats"
    /\ repo.active = "main"
    /\ faults = NoFaults
    /\ Len(result.value.rows) = 2
    /\ ActiveRows = {2}
    /\ result.value.rows[2].branch_name = "main"

\* C22 as stated: get_branch_stats returns one row for every local branch
\* whose tip can be read, with its tip hash, tip date, tip author and commit
\* count, when HEAD is attached to a branch and when HEAD is detached.
C22_RowPerBranch ==
    query = "branch_stats" =>
        /\ {result.value.rows[i].branch_name : i \in 1..Len(result.value.rows)}
               = ReadableBranches
        /\ \A i, j \in 1..Len(result.value.rows) :
               result.value.rows[i].branch_name = result.value.rows[j].branch_name => i = j
        /\ \A i \in 1..Len(result.value.rows) :
               LET row == result.value.rows[i]
                   tip == repo.tips[row.branch_name]
               IN  /\ row.last_commit_hash = Short(tip)
                   /\ row.last_commit_date = repo.date[tip]
                   /\ row.last_author = repo.author[tip]
                   /\ row.commits_count = Len(iter_commits(repo, tip, NoLimit))

Ids(rows) == {rows[i].id : i \in 1..Len(rows)}

\* the id of the pull_requests row of d with that key; 0 when there is none
IdOfKey(d, repo_url, pr_number) ==
    IF RowsOfKey(d, repo_url, pr_number) = {} THEN 0
    ELSE d.pull_requests[CHOOSE i \in RowsOfKey(d, repo_url, pr_number) : TRUE].id

\* C24 as stated: after insert_or_update_pr(pr) returned id i,
\* get_pr_id_by_number(pr.repo_url, pr.pr_number) returns i; there is one
\* pull_requests row per (repo_url, pr_number), and a call with a key that
\* has a row returns the id that row had.
C24_LookupReturnsInsertedId ==
    /\ \A key \in PrKeys : Cardinality(RowsOfKey(db, key[1], key[2])) <= 1
    /\ (dbcall.name = "insert_or_update_pr" /\ ~IsRaised(dbout)) =>
           LET pr_data == dbcall.args[1]
               was == IdOfKey(dbcall.before, pr_data.repo_url, pr_data.pr_number)
           IN  /\ dbout = Ok(IdOfKey(db, pr_data.repo_url, pr_data.pr_number))
               /\ was # 0 => dbout = Ok(was)
    /\ (dbcall.name = "get_pr_id_by_number"
            /\ IdOfKey(db, dbcall.args[1], dbcall.args[2]) # 0) =>
           dbout = Ok(IdOfKey(db, dbcall.args[1], dbcall.args[2]))

\* the hour a text of a point in time stands for
HourOf(stamp) == stamp.date * DayLen + stamp.time

\* C25: a record_operation that succeeds adds one operation_history row for
\* its pull request and returns the id of that row, an id no row had before;
\* get_pr_details(p) lists every operation row of p once;
\* get_operation_history(limit) returns at most limit rows, newest first,
\* and leaves out only rows that are not newer than any row it returns.
C25_OperationsRecorded ==
    /\ (dbcall.name = "record_operation" /\ ~IsRaised(dbout)) =>
           LET old == dbcall.before.operation_history
               new == db.operation_history
           IN  /\ Len(new) = Len(old) + 1
               /\ SubSeq(new, 1, Len(old)) = old
               /\ new[Len(new)].id = dbout.value
               /\ new[Len(new)].pr_id = dbcall.args[1]
               /\ new[Len(new)].operation = dbcall.args[2]
               /\ dbcall.args[2] \in ValidOperation
               /\ dbout.value \notin Ids(old)
    /\ (dbcall.name = "get_pr_details" /\ dbout.value # None) =>
           LET ops == dbout.value.operations
           IN  /\ Ids(ops) = Ids(OperationsOf(db, dbcall.args[1]))
               /\ Len(ops) = Len(OperationsOf(db, dbcall.args[1]))
    /\ dbcall.name = "get_operation_history" =>
           LET rows == dbout.value
               limit == dbcall.args[1]
               listed == {oh \in Range(db.operation_history) :
                             oh.pr_id \in Ids(db.pull_requests)}
           IN  /\ Len(rows) <= limit
               /\ Len(rows) = IF Cardinality(listed) < limit
                               THEN Cardinality(listed) ELSE limit
               /\ Cardinality(Ids(rows)) = Len(rows)
               /\ Ids(rows) \subseteq {oh.id : oh \in listed}
               /\ \A i, j \in 1..Len(rows) :
                      i < j => HourOf(rows[i].operation_time) >= HourOf(rows[j].operation_time)
               /\ \A oh \in listed :
                      oh.id \notin Ids(rows) =>
                          \A i \in 1..Len(rows) :
                              HourOf(rows[i].operation_time) >= HourOf(oh.operation_time)

\* two comments on pull request 1 in different seconds, then the history
\* with limit 1: the later comment alone
C25_Witness ==
    /\ dbcall.name = "get_operation_history"
    /\ dbcall.args[1] = 1
    /\ Len(OperationsOf(db, 1)) = 2
    /\ HourOf(db.operation_history[1].operation_time)
           < HourOf(db.operation_history[2].operation_time)
    /\ Len(dbout.value) = 1
    /\ dbout.value[1].id = 2

\* no review and no operation row refers to a pull request that has no row
NoOrphans(d) ==
    /\ \A rv \in Range(d.review_results) : rv.pr_id \in Ids(d.pull_requests)
    /\ \A oh \in Range(d.operation_history) : oh.pr_id \in Ids(d.pull_requests)

\* C26 as stated: cleanup_old_data(days) deletes every pull request opened
\* more than days days ago, and with it the review and operation rows that
\* refer to it: when no row was an orphan before the call, none is after it.
C26_CleanupCascades ==
    dbcall.name = "cleanup_old_data" =>
        /\ \A pr \in Range(db.pull_requests) :
               HourOf(pr.created_at) >= clock - dbcall.args[1] * DayLen
        /\ NoOrphans(dbcall.before) => NoOrphans(db)

\* C29 as stated: get_recent_prs returns one entry for each pull request
\* that matches, and its operation_count is the number of operation_history
\* rows of that pull request, however many reviews it has.
C29_OperationCount ==
    dbcall.name = "get_recent_prs" =>
        LET rows == dbout.value
            matching == {pr \in Range(db.pull_requests) :
                            /\ HourOf(pr.created_at) >= clock - dbcall.args[2] * DayLen
                            /\ (dbcall.args[1] = "" \/ pr.repo_url = dbcall.args[1])
                            /\ (dbcall.args[3] = "" \/ pr.status = dbcall.args[3])}
        IN  /\ Ids(rows) = {pr.id : pr \in matching}
            /\ Cardinality(Ids(rows)) = Len(rows)
            /\ \A i \in 1..Len(rows) :
                   rows[i].operation_count = Len(OperationsOf(db, rows[i].id))

(***************************************************************************)
(* Properties of parse_repo_url                                            *)
(***************************************************************************)
\* text without the first of the prefixes it starts with
WithoutPrefix(text, prefixes) ==
    IF \E q \in prefixes : startswith(text, q)
    THEN LET q == CHOOSE x \in prefixes : startswith(text, x)
         IN  SubSeq(text, Len(q) + 1, Len(text))
    ELSE text

\* owner/name: two pieces, none empty
IsOwnerName(text) ==
    Len(split(text)) = 2 /\ split(text)[1] # <<>> /\ split(text)[2] # <<>>

\* C27 as stated: for owner/repo, https://github.com/owner/repo and
\* git@github.com:owner/repo, each with or without ".git" at the end,
\* parse_repo_url returns the owner and the repository name without one
\* trailing ".git" and otherwise unchanged; a text of none of the three forms
\* (here: also none with http:// or with a slash at the end) raises ValueError.
C27_ParseRepoUrl ==
    upc = "parsed" =>
        LET text == strip(repo_path)
            core == WithoutPrefix(text, {g_https_github, g_gitat_github})
            loose == removesuffix(WithoutPrefix(text, {g_https_github, g_http_github,
                                                       g_gitat_github}), <<"/">>)
        IN  /\ IsOwnerName(core) =>
                   uout = [kind |-> "tuple", owner |-> split(core)[1],
                           repo |-> removesuffix(split(core)[2], s_dotgit)]
            /\ ~IsOwnerName(loose) => uout = Raised("ValueError")


(***************************************************************************)
(* Properties of the two merge queries taken together                      *)
(***************************************************************************)
\* C28 as stated: every row of get_merge_stats carries the source and target
\* branch that _analyze_merge_commit, and so get_merge_direction_history,
\* gives for the same commit: the first of the four ordered patterns that
\* matches decides, and both are "unknown" exactly when none matches.
\* Violated: get_merge_stats applies one pattern of its own.
C28_SameDirection ==
    query = "merge_stats" =>
        \A i \in 1..Len(result) :
            LET merge_info == analyze_merge_commit(Commit(repo, result[i].full_hash, TRUE))
            IN  /\ result[i].source_branch = merge_info.source_branch
                /\ result[i].target_branch = merge_info.target_branch


(***************************************************************************)
(* The recent repositories of a session (src/app.py): the list kept in    *)
(* st.session_state.recent_repos.  A path is an opaque string here.  The  *)
(* key is absent from the session state until one of the two functions    *)
(* stores a list; a stored list is [kind |-> "list", items |-> <<...>>].  *)
(***************************************************************************)
\* the [:10] of both functions, scaled down
RecentCap == 3

Home == "/home/user"                    \* os.path.expanduser("~")
common_paths == <<Home, "D:/", "C:/">>
SeedRepos == <<".", "..">>

UserPaths == {".", "..", Home, "D:/", "/r1", "/r2"}

List(items) == [kind |-> "list", items |-> items]

\* list.remove(x): the first occurrence goes
RECURSIVE RemoveFirst(_, _)
RemoveFirst(xs, x) ==
    IF xs = <<>> THEN <<>>
    ELSE IF Head(xs) = x THEN Tail(xs)
    ELSE <<Head(xs)>> \o RemoveFirst(Tail(xs), x)

\* the loop of get_recent_repos over common_paths; exists is the set of
\* paths for which os.path.exists is true
RECURSIVE AppendCommon(_, _, _)
AppendCommon(recent_list, i, exists) ==
    IF i > Len(common_paths) THEN recent_list
    ELSE LET path == common_paths[i]
         IN  IF path \notin Range(recent_list) /\ path \in exists
             THEN AppendCommon(Append(recent_list, path), i + 1, exists)
             ELSE AppendCommon(recent_list, i + 1, exists)

\* get_recent_repos: the session state it leaves and the list it returns
get_recent_repos(state, exists) ==
    LET stored == IF state = None THEN SeedRepos ELSE state.items
    IN  [state |-> List(stored),
         value |-> Limit(AppendCommon(stored, 1, exists), RecentCap)]

\* add_to_recent_repos without the removal of the path already listed
add_to_recent_repos_keeping(state, path) ==
    LET stored == IF state = None THEN <<>> ELSE state.items
    IN  List(Limit(<<path>> \o stored, RecentCap))

\* add_to_recent_repos: the session state it leaves
add_to_recent_repos(state, path) ==
    LET stored == IF state = None THEN <<>> ELSE state.items
        removed == IF path \in Range(stored) THEN RemoveFirst(stored, path)
                   ELSE stored
    IN  List(Limit(<<path>> \o removed, RecentCap))

(***************************************************************************)
(* SpecRecent: one session; each call records the list it found           *)
(***************************************************************************)
InitRecent ==
    /\ recent_repos = None
    /\ rcall = None
    /\ rout = None
    /\ IdleClassify /\ IdleRepo /\ IdleHandle /\ IdleOpen /\ IdleDb

RecentCalled(name, args) == [name |-> name, args |-> args, before |-> recent_repos]

GetRecentRepos ==
    /\ \E exists \in SUBSET Range(common_paths) :
          LET done == get_recent_repos(recent_repos, exists)
          IN  /\ recent_repos' = done.state
              /\ rout' = List(done.value)
              /\ rcall' = RecentCalled("get_recent_repos", <<exists>>)
    /\ UNCHANGED <<classifyVars, repoVars, handleVars, openVars, dbVars>>

AddToRecentRepos ==
    /\ \E path \in UserPaths :
          /\ recent_repos' = add_to_recent_repos(recent_repos, path)
          /\ rcall' = RecentCalled("add_to_recent_repos", <<path>>)
    /\ rout' = None
    /\ UNCHANGED <<classifyVars, repoVars, handleVars, openVars, dbVars>>

\* the button that clears the history
ClearHistory ==
    /\ recent_repos' = List(<<>>)
    /\ rcall' = RecentCalled("clear", <<>>)
    /\ rout' = None
    /\ UNCHANGED <<classifyVars, repoVars, handleVars, openVars, dbVars>>

NextRecent ==
    \/ GetRecentRepos
    \/ AddToRecentRepos
    \/ ClearHistory

SpecRecent == InitRecent /\ [][NextRecent]_vars

(***************************************************************************)
(* Properties of the recent repositories                                   *)
(***************************************************************************)
NoDuplicates(xs) == \A i, j \in 1..Len(xs) : xs[i] = xs[j] => i = j

IsPrefixOf(xs, ys) == Len(xs) <= Len(ys) /\ xs = SubSeq(ys, 1, Len(xs))

\* the entries of xs other than x, in the order of xs
Others(xs, x) == SelectSeq(xs, LAMBDA y : y # x)

ItemsBefore == IF rcall.before = None THEN <<>> ELSE rcall.before.items

\* C30: a stored list never holds a path twice and never more than the cap;
\* after add_to_recent_repos(p) the list starts with p and goes on with the
\* entries it had before, p left out, in the order they had, cut at the cap
\* from the end (so the order is most recently added first, the oldest is
\* the one dropped); after clearing it is empty; get_recent_repos returns at
\* most the cap and leaves a stored list as it found it (called when none is
\* stored yet, it stores the two initial entries "." and "..").
C30_RecentRepos ==
    /\ recent_repos # None =>
           /\ NoDuplicates(recent_repos.items)
           /\ Len(recent_repos.items) <= RecentCap
    /\ (rcall # None /\ rcall.name = "add_to_recent_repos") =>
           LET p == rcall.args[1]
               kept == Others(ItemsBefore, p)
           IN  /\ recent_repos.items[1] = p
               /\ IsPrefixOf(Tail(recent_repos.items), kept)
               /\ Len(recent_repos.items) =
                      (IF Len(kept) + 1 < RecentCap THEN Len(kept) + 1 ELSE RecentCap)
    /\ (rcall # None /\ rcall.name = "clear") => recent_repos.items = <<>>
    /\ (rcall # None /\ rcall.name = "get_recent_repos") =>
           /\ Len(rout.items) <= RecentCap
           /\ rcall.before # None => recent_repos = rcall.before
           /\ rcall.before = None => recent_repos = List(SeedRepos)

\* a path is added to a full list that does not hold it: it goes to the
\* front and the oldest entry is dropped
C30_Witness ==
    /\ rcall # None /\ rcall.name = "add_to_recent_repos"
    /\ rcall.before # None
    /\ Len(rcall.before.items) = RecentCap
    /\ rcall.args[1] \notin Range(rcall.before.items)
    /\ recent_repos.items = <<rcall.args[1]>> \o SubSeq(rcall.before.items, 1, RecentCap - 1)

====
